---- MODULE Spec2Model ----
(***************************************************************************)
(* The authoritative game-state engine of MarbleWS (class GameLogic) and   *)
(* the socket layer that drives it (setupSocketHandlers).                  *)
(*                                                                         *)
(* The rigid-body solver (matter-js) is an external library: a physics     *)
(* step is a nondeterministic relocation of non-static bodies to points of *)
(* interest, and a body carries the position, velocity and pending force   *)
(* the engine code reads and writes.  Body handles are allocated like      *)
(* object addresses: the smallest handle not present in the world.         *)
(***************************************************************************)
EXTENDS Integers, Sequences, FiniteSets, TLC

VARIABLES
    players,            \* this.players: Map in insertion order, a sequence of player records
    marbles,            \* this.marbles
    emotes,             \* this.emotes
    currentLevel,       \* this.currentLevel: the level data last loaded
    levelObjects,       \* this.levelObjects
    constraints,        \* this.constraints
    teleportCooldowns,  \* this.teleportCooldowns: key -> timestamp
    world,              \* handles (bodies and constraints) inside the Matter world
    bodies,             \* handle -> body record, for the bodies of the world
    now,                \* Date.now()
    sockets,            \* socket id -> "new", "open", "closed", or "left" (closed after a login)
    crashed,            \* an uncaught exception ended the process
    pc,                 \* position of the handler being run, "idle" between handlers
    pending,            \* level name a running load handler is about to build
    snapPc,             \* observation: value of pc when the last snapshot was built
    winRun,             \* observation: awards and emits of the current marble arrival
    prevLevel,          \* observation: name of the level the last load replaced
    ignored,            \* observation: the last handler's message named no live player
    editor,             \* the level editor page of a browser: its level, form and requests
    twitch              \* the TwitchChat instance of the server

vars == <<players, marbles, emotes, currentLevel, levelObjects, constraints,
          teleportCooldowns, world, bodies, now, sockets, crashed, pc, pending,
          snapPc, winRun, prevLevel, ignored, editor, twitch>>

----------------------------------------------------------------------------
(* Bounds of the model *)

MaxUfos == 2            \* most player bodies in the world when a login is served
MaxEmotes == 1          \* most live emotes when another one is spawned
MaxMoved == 1           \* most bodies one physics step relocates
MaxNow == 6000          \* last clock reading
ClockStep == 2500       \* granule of the modelled clock, in ms
MaxObjects == 3         \* most objects of a pasted level
MaxChatEmotes == 2      \* most live emotes when a chat message spawns another
MaxAwaiting == 2        \* most emote verifications in flight
ChatStep == 1000        \* granule of the clock between chat messages, in ms
MaxLevel == 1           \* ticks stop once a player is above this level
BootTime == 1000        \* clock reading when the process starts

(* Program constants *)

CooldownMs == 5000
PruneMs == 2000
MinY == 1200
CaptureRadius == 50
XpAward == 100
XpPerLevel == 1000
DefaultSpawnX == 960
DefaultSpawnY == 540
SafeX == 400
SafeY == 200
UfoRadius == 25
MarbleRadius == 30
EmoteRadius == 20
SpawnLift == 50
ForceAmount == 3        \* 0.003, in thousandths
BeamRange == 120
BeamWidth == 80
BeamTop == 18

----------------------------------------------------------------------------
(* Values *)

NoId == <<"none", 0>>
SockId(i) == <<"sock", i>>
ObjId(i) == <<"obj", i>>
ConnId(i) == <<"conn", i>>
ClockId(t) == <<"clock", t>>

SocketIds == {SockId(1), SockId(2)}

Pt(px, py) == [x |-> px, y |-> py]
Zero == Pt(0, 0)
Moving == Pt(0, 1)

NoInput == [set |-> FALSE, up |-> FALSE, down |-> FALSE, left |-> FALSE, right |-> FALSE]
Input(u, d, l, r) == [set |-> TRUE, up |-> u, down |-> d, left |-> l, right |-> r]

Min(S) == CHOOSE m \in S : \A n \in S : m <= n

Range(s) == {s[i] : i \in DOMAIN s}

\* Array.prototype.find, as the index of the first element passing Test, 0 for undefined
FindFirst(s, Test(_)) ==
    LET hits == {i \in DOMAIN s : Test(s[i])}
    IN  IF hits = {} THEN 0 ELSE Min(hits)

----------------------------------------------------------------------------
(* Level files of the levels directory: name -> level data *)

Rect(i, px, py, w, h, static, props, nxt, target) ==
    [id |-> ObjId(i), shape |-> "rectangle", x |-> px, y |-> py, width |-> w,
     height |-> h, radius |-> 0, isStatic |-> static, properties |-> props,
     nextLevel |-> nxt, teleporterTarget |-> target]

Circle(i, px, py, r, static, props, nxt, target) ==
    [id |-> ObjId(i), shape |-> "circle", x |-> px, y |-> py, width |-> 0,
     height |-> 0, radius |-> r, isStatic |-> static, properties |-> props,
     nextLevel |-> nxt, teleporterTarget |-> target]

Conn(i, t, a, b) == [id |-> ConnId(i), type |-> t, bodyA |-> a, bodyB |-> b]

LevelL ==
    [name |-> "L", objects |-> << Rect(1, 100, 100, 40, 20, TRUE, {"spawnpoint"}, "", NoId),
                    Circle(2, 300, 100, 20, FALSE, {}, "", NoId) >>,
     connections |-> << Conn(1, "rope", ObjId(1), ObjId(2)) >>]

LevelM ==
    [name |-> "M", objects |-> << Rect(3, 500, 300, 40, 20, TRUE, {"spawnpoint", "playerspawn"}, "", NoId) >>,
     connections |-> << >>]

LevelW ==
    [name |-> "W", objects |-> << Rect(5, 100, 100, 40, 20, TRUE, {"spawnpoint"}, "", NoId),
                    Circle(6, 100, 900, 20, TRUE, {"goal"}, "M", NoId),
                    Circle(7, 400, 900, 20, TRUE, {"goal"}, "nolevel", NoId) >>,
     connections |-> << >>]

LevelT ==
    [name |-> "T", objects |-> << Rect(8, 100, 100, 40, 20, TRUE, {"spawnpoint"}, "", NoId),
                    Rect(9, 300, 500, 40, 40, TRUE, {"teleporter"}, "", ObjId(10)),
                    Rect(10, 800, 500, 40, 40, TRUE, {"teleporter"}, "", ObjId(9)) >>,
     connections |-> << >>]

\* a level with dangling references: connections 3 and 5 name objects that are not
\* in the level, connection 4 has an unknown type, teleporter 13 targets a missing
\* object and teleporter 14 an object that is no teleporter
LevelD ==
    [name |-> "D", objects |-> << Rect(11, 100, 100, 40, 20, TRUE, {"spawnpoint"}, "", NoId),
                    Circle(12, 600, 100, 20, FALSE, {}, "", NoId),
                    Rect(13, 300, 500, 40, 40, TRUE, {"teleporter"}, "", ObjId(99)),
                    Rect(14, 800, 500, 40, 40, TRUE, {"teleporter"}, "", ObjId(12)) >>,
     connections |-> << Conn(2, "rope", ObjId(11), ObjId(12)),
                        Conn(3, "rope", ObjId(11), ObjId(98)),
                        Conn(4, "weld", ObjId(11), ObjId(12)),
                        Conn(5, "spring", ObjId(97), ObjId(12)) >>]

\* a level whose goal names level X
LevelV ==
    [name |-> "V", objects |-> << Rect(15, 100, 100, 40, 20, TRUE, {"spawnpoint"}, "", NoId),
                    Circle(16, 100, 900, 20, TRUE, {"goal"}, "X", NoId) >>,
     connections |-> << >>]

\* a level file that parses as JSON and has no objects array and no connections
LevelX == [name |-> "X"]

\* a level with three spawnpoint-tagged objects, the second of a shape loadLevel makes
\* no body for
LevelS ==
    [name |-> "S", objects |-> << Rect(17, 100, 100, 40, 20, TRUE, {"spawnpoint"}, "", NoId),
                    [Rect(18, 500, 100, 40, 20, TRUE, {"spawnpoint"}, "", NoId)
                        EXCEPT !.shape = "polygon"],
                    Circle(19, 700, 100, 20, TRUE, {"spawnpoint"}, "", NoId) >>,
     connections |-> << >>]

\* a level whose spawnpoint comes before its two playerspawn objects
LevelP ==
    [name |-> "P", objects |-> << Rect(20, 100, 100, 40, 20, TRUE, {"spawnpoint"}, "", NoId),
                    Rect(21, 700, 300, 40, 20, TRUE, {"playerspawn"}, "", NoId),
                    Rect(22, 900, 300, 40, 20, TRUE, {"playerspawn"}, "", NoId) >>,
     connections |-> << >>]

\* a level without any spawn tag: a platform and a movable ball
LevelN ==
    [name |-> "N", objects |-> << Rect(23, 500, 800, 400, 20, TRUE, {}, "", NoId),
                    Circle(24, 500, 700, 20, FALSE, {}, "", NoId) >>,
     connections |-> << >>]

\* a spawnpoint first, an emotespawn after it
LevelE ==
    [name |-> "E", objects |-> << Rect(25, 100, 100, 40, 20, TRUE, {"spawnpoint"}, "", NoId),
                    Rect(26, 700, 300, 40, 20, TRUE, {"emotespawn"}, "", NoId) >>,
     connections |-> << >>]

\* below the playerspawn, inside the beam cone of a UFO that hovers there: a static
\* spawnpoint (whose marble appears above it) and a movable ball
LevelB ==
    [name |-> "B", objects |-> << Rect(27, 500, 400, 40, 20, TRUE, {"playerspawn"}, "", NoId),
                    Rect(28, 500, 520, 40, 20, TRUE, {"spawnpoint"}, "", NoId),
                    Circle(29, 540, 480, 20, FALSE, {}, "", NoId) >>,
     connections |-> << >>]

\* two spawnpoints, hence two marbles; the first goal names no next level, the
\* second names a level that has no file
LevelG ==
    [name |-> "G", objects |-> << Rect(30, 100, 100, 40, 20, TRUE, {"spawnpoint"}, "", NoId),
                    Rect(31, 700, 100, 40, 20, TRUE, {"spawnpoint"}, "", NoId),
                    Circle(32, 100, 900, 20, TRUE, {"goal"}, "", NoId),
                    Circle(33, 400, 900, 20, TRUE, {"goal"}, "nolevel", NoId) >>,
     connections |-> << >>]

LevelFiles == [n \in {"L", "M", "W", "T", "D", "V", "X", "S", "P", "N", "E", "B", "G"} |->
                 CASE n = "L" -> LevelL
                   [] n = "M" -> LevelM
                   [] n = "W" -> LevelW
                   [] n = "T" -> LevelT
                   [] n = "D" -> LevelD
                   [] n = "V" -> LevelV
                   [] n = "X" -> LevelX
                   [] n = "S" -> LevelS
                   [] n = "P" -> LevelP
                   [] n = "N" -> LevelN
                   [] n = "E" -> LevelE
                   [] n = "B" -> LevelB
                   [] n = "G" -> LevelG]

\* this.currentLevel = null
NullLevel == [name |-> "", objects |-> << >>, connections |-> << >>]

\* fs.existsSync(levelPath)
existsSync(name) == name \in DOMAIN LevelFiles

----------------------------------------------------------------------------
(* The engine state as one value, so that the steps of a handler compose.  *)
(* threw: an exception left the call.                                      *)

G == [players |-> players, marbles |-> marbles, emotes |-> emotes,
      currentLevel |-> currentLevel, levelObjects |-> levelObjects,
      constraints |-> constraints, teleportCooldowns |-> teleportCooldowns,
      world |-> world, bodies |-> bodies, threw |-> FALSE]

SetG(g) ==
    /\ players' = g.players
    /\ marbles' = g.marbles
    /\ emotes' = g.emotes
    /\ currentLevel' = g.currentLevel
    /\ levelObjects' = g.levelObjects
    /\ constraints' = g.constraints
    /\ teleportCooldowns' = g.teleportCooldowns
    /\ world' = g.world
    /\ bodies' = g.bodies
    /\ crashed' = g.threw

\* a fresh object: the smallest handle not in the world
NewHandle(g) == Min({n \in 1..(Cardinality(g.world) + 1) : n \notin g.world})

\* Matter.Bodies.circle / Matter.Bodies.rectangle
NewBody(kind, owner, pos, shape, hw, hh, static) ==
    [kind |-> kind, owner |-> owner, pos |-> pos, vel |-> Zero, force |-> Zero,
     beamBy |-> {}, shape |-> shape, hw |-> hw, hh |-> hh, isStatic |-> static,
     stale |-> FALSE, tpLast |-> 0, tpEarly |-> FALSE]

\* Matter.World.add(this.world, body)
WorldAdd(g, h, body) ==
    [g EXCEPT !.world = @ \cup {h}, !.bodies = (h :> body) @@ @]

\* Matter.World.remove(this.world, x)
WorldRemove(g, h) ==
    [g EXCEPT !.world = @ \ {h},
              !.bodies = [k \in (DOMAIN @) \ {h} |-> @[k]]]

\* Matter.Body.setPosition / Matter.Body.setVelocity
SetPosition(g, h, pos) == [g EXCEPT !.bodies[h].pos = pos]
SetVelocity(g, h, vel) == [g EXCEPT !.bodies[h].vel = vel]

----------------------------------------------------------------------------
(* Players *)

PlayerIds(g) == {g.players[i].id : i \in DOMAIN g.players}

\* this.players.get(socketId), as an index into the map's entries, 0 for undefined
PlayerAt(g, socketId) ==
    LET Is(p) == p.id = socketId IN FindFirst(g.players, Is)

HasProperty(obj, tag) == tag \in obj.properties

\* spawn position: playerspawn, then spawnpoint, then the hard-coded centre
\* the priority reversed: spawnpoint before playerspawn
SpawnPositionMarbleFirst(g) ==
    LET IsPlayerSpawn(o) == HasProperty(o, "playerspawn")
        IsSpawnPoint(o) == HasProperty(o, "spawnpoint")
        a == FindFirst(g.levelObjects, IsPlayerSpawn)
        b == FindFirst(g.levelObjects, IsSpawnPoint)
        k == IF b # 0 THEN b ELSE a
    IN  IF k # 0 THEN Pt(g.levelObjects[k].x, g.levelObjects[k].y)
        ELSE Pt(DefaultSpawnX, DefaultSpawnY)

SpawnPosition(g) ==
    LET IsPlayerSpawn(o) == HasProperty(o, "playerspawn")
        IsSpawnPoint(o) == HasProperty(o, "spawnpoint")
        a == FindFirst(g.levelObjects, IsPlayerSpawn)
        b == FindFirst(g.levelObjects, IsSpawnPoint)
        k == IF a # 0 THEN a ELSE b
    IN  IF k # 0 THEN Pt(g.levelObjects[k].x, g.levelObjects[k].y)
        ELSE Pt(DefaultSpawnX, DefaultSpawnY)

addPlayer(g, socketId) ==
    LET spawn == SpawnPosition(g)
        h == NewHandle(g)
        g1 == WorldAdd(g, h, NewBody("player", socketId, spawn, "circle",
                                     UfoRadius, UfoRadius, FALSE))
        player == [id |-> socketId, body |-> h, x |-> spawn.x, y |-> spawn.y,
                   beamActive |-> FALSE, beamTarget |-> NoId, xp |-> 0,
                   level |-> 1, input |-> NoInput]
        k == PlayerAt(g, socketId)
    IN  [g1 EXCEPT !.players = IF k = 0 THEN Append(@, player)
                                ELSE [@ EXCEPT ![k] = player]]

\* the clean player data addPlayer returns, without the physics body
addPlayerResult(g, socketId) ==
    LET spawn == SpawnPosition(g)
    IN  [id |-> socketId, x |-> spawn.x, y |-> spawn.y, beamActive |-> FALSE,
         beamTarget |-> NoId, xp |-> 0, level |-> 1]

\* the guard on the looked-up player forgotten: reading .body of undefined throws
removePlayerUnguarded(g, socketId) ==
    LET k == PlayerAt(g, socketId)
    IN  IF k = 0 THEN [g EXCEPT !.threw = TRUE]
        ELSE [WorldRemove(g, g.players[k].body) EXCEPT
                 !.players = SelectSeq(@, LAMBDA p : p.id # socketId)]

removePlayer(g, socketId) ==
    LET k == PlayerAt(g, socketId)
        g1 == IF k # 0 THEN WorldRemove(g, g.players[k].body) ELSE g
    IN  [g1 EXCEPT !.players = SelectSeq(@, LAMBDA p : p.id # socketId)]

\* the first input of a player is kept: later messages do not overwrite it
updatePlayerInputOnce(g, socketId, input) ==
    LET k == PlayerAt(g, socketId)
    IN  IF k # 0 /\ ~ g.players[k].input.set THEN [g EXCEPT !.players[k].input = input] ELSE g

updatePlayerInput(g, socketId, input) ==
    LET k == PlayerAt(g, socketId)
    IN  IF k # 0 THEN [g EXCEPT !.players[k].input = input] ELSE g

\* the guard on the looked-up player forgotten: writing a field of undefined throws
activateBeamUnguarded(g, socketId, active) ==
    LET k == PlayerAt(g, socketId)
    IN  IF k = 0 THEN [g EXCEPT !.threw = TRUE]
        ELSE [g EXCEPT !.players[k].beamActive = active,
                       !.players[k].beamTarget = IF active THEN @ ELSE NoId]

\* the target left in place when the beam is switched off
activateBeamKeepsTarget(g, socketId, active) ==
    LET k == PlayerAt(g, socketId)
    IN  IF k # 0
        THEN [g EXCEPT !.players[k].beamActive = active]
        ELSE g

activateBeam(g, socketId, active) ==
    LET k == PlayerAt(g, socketId)
    IN  IF k # 0
        THEN [g EXCEPT !.players[k].beamActive = active,
                       !.players[k].beamTarget = IF active THEN @ ELSE NoId]
        ELSE g

----------------------------------------------------------------------------
(* Level load *)

HalfW(obj) == IF obj.shape = "rectangle" THEN obj.width \div 2 ELSE obj.radius
HalfH(obj) == IF obj.shape = "rectangle" THEN obj.height \div 2 ELSE obj.radius

spawnMarble(g, px, py, t) ==
    LET h == NewHandle(g)
        g1 == WorldAdd(g, h, NewBody("marble", ClockId(t), Pt(px, py), "circle",
                                     MarbleRadius, MarbleRadius, FALSE))
    IN  [g1 EXCEPT !.marbles = Append(@, [id |-> ClockId(t), body |-> h, type |-> "marble"])]

ConstraintTypes == {"revolute", "rope", "spring", "distance"}

\* the endpoint check forgotten: a constraint is created whatever the lookups return
createConstraintUnchecked(g, connection) ==
    LET h == NewHandle(g)
        link == NewBody("constraint", connection.id, Zero, connection.type, 0, 0, TRUE)
    IN  IF connection.type \notin ConstraintTypes THEN g
        ELSE [WorldAdd(g, h, link) EXCEPT
                 !.constraints = Append(@, [constraint |-> h] @@ connection)]

createConstraint(g, connection) ==
    LET IsA(o) == o.id = connection.bodyA
        IsB(o) == o.id = connection.bodyB
        a == FindFirst(g.levelObjects, IsA)
        b == FindFirst(g.levelObjects, IsB)
        h == NewHandle(g)
        link == NewBody("constraint", connection.id, Zero, connection.type, 0, 0, TRUE)
    IN  IF a = 0 \/ b = 0 THEN g
        ELSE IF connection.type \notin ConstraintTypes THEN g
        ELSE [WorldAdd(g, h, link) EXCEPT
                 !.constraints = Append(@, [constraint |-> h] @@ connection)]

RECURSIVE CreateConstraints(_, _, _)
\* levelData.connections.forEach(connection => this.createConstraint(connection))
CreateConstraints(g, conns, i) ==
    IF i > Len(conns) THEN g
    ELSE CreateConstraints(createConstraint(g, conns[i]), conns, i + 1)

RECURSIVE CreateObjects(_, _, _, _)
\* levelData.objects.forEach(obj => ...)
CreateObjects(g, objs, i, t) ==
    IF i > Len(objs) THEN g
    ELSE LET obj == objs[i]
             h == NewHandle(g)
             g1 == WorldAdd(g, h, NewBody("object", obj.id, Pt(obj.x, obj.y), obj.shape,
                                          HalfW(obj), HalfH(obj), obj.isStatic))
             g2 == [g1 EXCEPT !.levelObjects = Append(@, [body |-> h] @@ obj)]
             g3 == IF HasProperty(obj, "spawnpoint")
                   THEN spawnMarble(g2, obj.x, obj.y - SpawnLift, t)
                   ELSE g2
         IN  CreateObjects(IF obj.shape \in {"rectangle", "circle"} THEN g3 ELSE g,
                           objs, i + 1, t)

Handles(entries) == {entries[i].body : i \in DOMAIN entries}
ConstraintHandles(entries) == {entries[i].constraint : i \in DOMAIN entries}

\* Matter.World.clear in place of the removals: every body leaves the world
WorldClear(g, S) ==
    [g EXCEPT !.world = {}, !.bodies = << >>]

\* Matter.World.remove for every handle of S
WorldRemoveAll(g, S) ==
    [g EXCEPT !.world = @ \ S,
              !.bodies = [k \in (DOMAIN @) \ S |-> @[k]]]

\* observation: what is in the world when a load starts belongs to the level before it
MarkStale(g) ==
    [g EXCEPT !.bodies = [k \in DOMAIN @ |->
                            IF @[k].kind = "player" THEN @[k]
                            ELSE [@[k] EXCEPT !.stale = TRUE]]]

\* the clearing of the first engine (server/gameLogic.js): the marbles list is dropped
\* with its bodies still in the world, the emotes and constraints are left alone
loadLevelClearLists(g, levelData) ==
    LET g1 == [WorldRemoveAll(g, Handles(g.levelObjects)) EXCEPT !.levelObjects = << >>]
    IN  [g1 EXCEPT !.marbles = << >>, !.currentLevel = levelData]

\* the clearing without its second loop: the constraints of the level before stay
loadLevelClearKeepsConstraints(g, levelData) ==
    LET g1 == [WorldRemoveAll(g, Handles(g.levelObjects)) EXCEPT !.levelObjects = << >>]
        g3 == [WorldRemoveAll(g1, Handles(g.marbles)) EXCEPT !.marbles = << >>]
        g4 == [WorldRemoveAll(g3, Handles(g.emotes)) EXCEPT !.emotes = << >>]
    IN  [g4 EXCEPT !.currentLevel = levelData]

\* first half of loadLevel: clear level objects, constraints, marbles and emotes
loadLevelClear(g, levelData) ==
    LET g1 == [WorldRemoveAll(g, Handles(g.levelObjects)) EXCEPT !.levelObjects = << >>]
        g2 == [WorldRemoveAll(g1, ConstraintHandles(g.constraints)) EXCEPT !.constraints = << >>]
        g3 == [WorldRemoveAll(g2, Handles(g.marbles)) EXCEPT !.marbles = << >>]
        g4 == [WorldRemoveAll(g3, Handles(g.emotes)) EXCEPT !.emotes = << >>]
    IN  [g4 EXCEPT !.currentLevel = levelData]

\* second half of loadLevel: bodies of the objects, marbles at spawnpoints, constraints.
\* levelData.objects.forEach throws a TypeError when the data has no objects;
\* the connections are read only if (levelData.connections)
loadLevelBuild(g, levelData, t) ==
    IF "objects" \notin DOMAIN levelData THEN [g EXCEPT !.threw = TRUE]
    ELSE LET g1 == CreateObjects(g, levelData.objects, 1, t)
         IN  IF "connections" \in DOMAIN levelData
             THEN CreateConstraints(g1, levelData.connections, 1)
             ELSE g1

loadLevel(g, levelData, t) ==
    loadLevelBuild(loadLevelClear(MarkStale(g), levelData), levelData, t)

----------------------------------------------------------------------------
(* Emotes *)

RandomOffsets == {49}           \* an outcome of Math.random() * 100 - 50

\* Date.now() + Math.random(), with r in {0, 1} for the draw
EmoteId(t, r) == <<"clock+random", 2 * t + r>>

\* the priority reversed: spawnpoint before emotespawn
spawnEmoteSpawnpointFirst(g, t, r, dx) ==
    LET IsEmoteSpawn(o) == HasProperty(o, "emotespawn")
        IsSpawnPoint(o) == HasProperty(o, "spawnpoint")
        a == FindFirst(g.levelObjects, IsEmoteSpawn)
        b == FindFirst(g.levelObjects, IsSpawnPoint)
        k == IF b # 0 THEN b ELSE a
        at == g.levelObjects[k]
        h == NewHandle(g)
        g1 == WorldAdd(g, h, NewBody("emote", EmoteId(t, r), Pt(at.x + dx, at.y - SpawnLift),
                                     "circle", EmoteRadius, EmoteRadius, FALSE))
    IN  IF k = 0 THEN g
        ELSE [g1 EXCEPT !.emotes = Append(@, [id |-> EmoteId(t, r), body |-> h,
                                               type |-> "emote"])]

spawnEmote(g, t, r, dx) ==
    LET IsEmoteSpawn(o) == HasProperty(o, "emotespawn")
        IsSpawnPoint(o) == HasProperty(o, "spawnpoint")
        a == FindFirst(g.levelObjects, IsEmoteSpawn)
        b == FindFirst(g.levelObjects, IsSpawnPoint)
        k == IF a # 0 THEN a ELSE b
        at == g.levelObjects[k]
        h == NewHandle(g)
        g1 == WorldAdd(g, h, NewBody("emote", EmoteId(t, r), Pt(at.x + dx, at.y - SpawnLift),
                                     "circle", EmoteRadius, EmoteRadius, FALSE))
    IN  IF k = 0 THEN g
        ELSE [g1 EXCEPT !.emotes = Append(@, [id |-> EmoteId(t, r), body |-> h,
                                               type |-> "emote"])]

----------------------------------------------------------------------------
(* Geometry of the library calls the engine makes *)

\* body.vertices: the corners of a rectangle; a circle by its four extreme points
BodyVertices(b) ==
    IF b.shape = "rectangle"
    THEN << Pt(b.pos.x - b.hw, b.pos.y - b.hh), Pt(b.pos.x + b.hw, b.pos.y - b.hh),
            Pt(b.pos.x + b.hw, b.pos.y + b.hh), Pt(b.pos.x - b.hw, b.pos.y + b.hh) >>
    ELSE << Pt(b.pos.x, b.pos.y - b.hh), Pt(b.pos.x + b.hw, b.pos.y),
            Pt(b.pos.x, b.pos.y + b.hh), Pt(b.pos.x - b.hw, b.pos.y) >>

\* body.bounds
Bounds(b) == [min |-> Pt(b.pos.x - b.hw, b.pos.y - b.hh),
              max |-> Pt(b.pos.x + b.hw, b.pos.y + b.hh)]

\* Matter.Vertices.contains(vertices, point)
Contains(verts, p) ==
    \A i \in DOMAIN verts :
        LET v == verts[IF i = 1 THEN Len(verts) ELSE i - 1]
            nx == verts[i]
        IN  ~ ((p.x - v.x) * (nx.y - v.y) + (p.y - v.y) * (v.x - nx.x) > 0)

\* the trapezoid under a UFO at (px, py)
BeamPolygon(px, py) ==
    << Pt(px - BeamWidth \div 2, py + BeamTop),
       Pt(px + BeamWidth \div 2, py + BeamTop),
       Pt(px + (3 * BeamWidth) \div 2, py + BeamRange),
       Pt(px - (3 * BeamWidth) \div 2, py + BeamRange) >>

\* overlap || beamOverlap
InBeam(beamVerts, b) ==
    LET objVerts == BodyVertices(b)
    IN  \/ \E i \in DOMAIN objVerts : Contains(beamVerts, objVerts[i])
        \/ \E i \in DOMAIN beamVerts : Contains(objVerts, beamVerts[i])

----------------------------------------------------------------------------
(* Beams *)

\* an entry of a candidates or movableObjects array: the id and body the loops read
Entity(e) == [id |-> e.id, body |-> e.body]
Entities(entries) == [i \in DOMAIN entries |-> Entity(entries[i])]

\* the filter forgotten: static level objects are candidates too
BeamCandidatesAnyObject(g, player) ==
    Entities(g.marbles) \o Entities(g.emotes)
      \o Entities(g.levelObjects)
      \o Entities(SelectSeq(g.players, LAMBDA p : p.id # player.id))

\* [...marbles, ...emotes, ...levelObjects.filter(obj => !obj.isStatic), ...otherPlayers]
BeamCandidates(g, player) ==
    Entities(g.marbles) \o Entities(g.emotes)
      \o Entities(SelectSeq(g.levelObjects, LAMBDA o : ~ o.isStatic))
      \o Entities(SelectSeq(g.players, LAMBDA p : p.id # player.id))

\* the candidates overlapping the beam polygon of the player, in candidate order
ObjectsInBeam(g, player) ==
    LET beamVerts == BeamPolygon(player.x, player.y)
    IN  SelectSeq(BeamCandidates(g, player),
                  LAMBDA c : InBeam(beamVerts, g.bodies[c.body]))

\* Matter.Body.applyForce on every body of hit, on behalf of the beam of socketId
ApplyBeamForce(g, hit, socketId) ==
    LET hs == Handles(hit)
    IN  [g EXCEPT !.bodies = [h \in DOMAIN @ |->
                                IF h \in hs
                                THEN [@[h] EXCEPT !.beamBy = @ \cup {socketId}]
                                ELSE @[h]]]

handleBeamInteraction(g, socketId) ==
    LET k == PlayerAt(g, socketId)
        objectsInBeam == ObjectsInBeam(g, g.players[k])
        g1 == ApplyBeamForce(g, objectsInBeam, socketId)
    IN  IF k = 0 THEN g
        ELSE IF ~ g.players[k].beamActive THEN g
        ELSE IF Len(objectsInBeam) > 0
             THEN [g1 EXCEPT !.players[k].beamTarget = objectsInBeam[1].id]
             ELSE g1

RECURSIVE BeamLoop(_, _)
\* this.players.forEach(player => { if (player.beamActive) ... })
BeamLoop(g, k) ==
    IF k > Len(g.players) THEN g
    ELSE LET player == g.players[k]
         IN  BeamLoop(IF player.beamActive
                      THEN ApplyBeamForce(g, ObjectsInBeam(g, player), player.id)
                      ELSE g,
                      k + 1)

updateBeamEffects(g) == BeamLoop(g, 1)

----------------------------------------------------------------------------
(* The physics step and the per-tick rules *)

\* bodies the solver moves
Dynamic(g) ==
    {h \in DOMAIN g.bodies :
        g.bodies[h].kind \in {"player", "marble", "emote", "object"} /\ ~ g.bodies[h].isStatic}

\* the relocations one step may make in a scenario: at most MaxMoved bodies of the
\* given kinds, each to a point of pts
Moves(g, kinds, pts) ==
    LET movable == {h \in Dynamic(g) : g.bodies[h].kind \in kinds}
    IN  UNION {[S -> pts] : S \in {T \in SUBSET movable : Cardinality(T) <= MaxMoved}}

\* Matter.Engine.update: moves bodies, consumes and clears the pending forces
EngineUpdate(g, mv) ==
    [g EXCEPT !.bodies = [h \in DOMAIN @ |->
        IF h \in DOMAIN mv
        THEN [@[h] EXCEPT !.pos = mv[h], !.vel = Moving, !.force = Zero, !.beamBy = {}]
        ELSE IF h \in Dynamic(g)
        THEN [@[h] EXCEPT !.vel = Moving, !.force = Zero, !.beamBy = {}]
        ELSE @[h]]]

\* the directions tested with else: right hides left, down hides up
InputForceFirstWins(input) ==
    Pt(IF input.right THEN ForceAmount ELSE IF input.left THEN 0 - ForceAmount ELSE 0,
       IF input.down THEN ForceAmount ELSE IF input.up THEN 0 - ForceAmount ELSE 0)

InputForce(input) ==
    Pt((IF input.right THEN ForceAmount ELSE 0) - (IF input.left THEN ForceAmount ELSE 0),
       (IF input.down THEN ForceAmount ELSE 0) - (IF input.up THEN ForceAmount ELSE 0))

RECURSIVE InputLoop(_, _)
\* this.players.forEach(player => { if (player.input && player.body) ... })
InputLoop(g, k) ==
    IF k > Len(g.players) THEN g
    ELSE LET player == g.players[k]
             f == InputForce(player.input)
         IN  InputLoop(IF player.input.set /\ f # Zero
                       THEN [g EXCEPT !.bodies[player.body].force =
                                          Pt(@.x + f.x, @.y + f.y)]
                       ELSE g,
                       k + 1)

applyPlayerInputs(g) == InputLoop(g, 1)

\* player.x = player.body.position.x; player.y = player.body.position.y
SyncPositions(g) ==
    [g EXCEPT !.players = [k \in DOMAIN @ |->
        [@[k] EXCEPT !.x = g.bodies[g.players[k].body].pos.x,
                     !.y = g.bodies[g.players[k].body].pos.y]]]

InRange(goal, body) ==
    LET dx == body.pos.x - goal.x
        dy == body.pos.y - goal.y
    IN  dx * dx + dy * dy < CaptureRadius * CaptureRadius

\* the <<goal, marble>> pairs of checkWinCondition's two loops that are in range
WinPairs(g) ==
    {<<i, j>> \in (DOMAIN g.levelObjects) \X (DOMAIN g.marbles) :
        /\ HasProperty(g.levelObjects[i], "goal")
        /\ InRange(g.levelObjects[i], g.bodies[g.marbles[j].body])}

\* the goals walked from the end: last goal in order, then first marble
LastWinPair(g) ==
    CHOOSE p \in WinPairs(g) :
        \A q \in WinPairs(g) : p[1] > q[1] \/ (p[1] = q[1] /\ p[2] <= q[2])

\* the pair the loops stop at: first goal in order, then first marble
FirstWinPair(g) ==
    CHOOSE p \in WinPairs(g) :
        \A q \in WinPairs(g) : p[1] < q[1] \/ (p[1] = q[1] /\ p[2] <= q[2])

checkWinCondition(g) ==
    IF WinPairs(g) = {} THEN [win |-> FALSE, nextLevel |-> ""]
    ELSE [win |-> TRUE, nextLevel |-> g.levelObjects[FirstWinPair(g)[1]].nextLevel]

\* player.xp += 100; level up at level * 1000
\* the level-up resets xp and forgets to raise the level
AwardXpResetOnly(g) ==
    [g EXCEPT !.players = [k \in DOMAIN @ |->
        LET xp == @[k].xp + XpAward
        IN  IF xp >= @[k].level * XpPerLevel
            THEN [@[k] EXCEPT !.xp = 0]
            ELSE [@[k] EXCEPT !.xp = xp]]]

\* the threshold compared strictly: a player exactly on it does not level up
AwardXpLate(g) ==
    [g EXCEPT !.players = [k \in DOMAIN @ |->
        LET xp == @[k].xp + XpAward
        IN  IF xp > @[k].level * XpPerLevel
            THEN [@[k] EXCEPT !.level = @ + 1, !.xp = 0]
            ELSE [@[k] EXCEPT !.xp = xp]]]

\* the award without the level-up: xp only accumulates
AwardXpNoLevelUp(g) ==
    [g EXCEPT !.players = [k \in DOMAIN @ |-> [@[k] EXCEPT !.xp = @ + XpAward]]]

AwardXp(g) ==
    [g EXCEPT !.players = [k \in DOMAIN @ |->
        LET xp == @[k].xp + XpAward
        IN  IF xp >= @[k].level * XpPerLevel
            THEN [@[k] EXCEPT !.level = @ + 1, !.xp = 0]
            ELSE [@[k] EXCEPT !.xp = xp]]]

----------------------------------------------------------------------------
(* Teleporters *)

\* !(a.max.x < b.min.x || a.min.x > b.max.x || a.max.y < b.min.y || a.min.y > b.max.y)
BoundsOverlap(a, b) ==
    ~ (\/ a.max.x < b.min.x
       \/ a.min.x > b.max.x
       \/ a.max.y < b.min.y
       \/ a.min.y > b.max.y)

\* this.teleportCooldowns.set(key, t)
CooldownSet(cd, key, t) == [k \in (DOMAIN cd) \cup {key} |-> IF k = key THEN t ELSE cd[k]]

\* the clean-up loop left out: no entry is ever deleted
CooldownKeepAll(cd, t) == cd

\* delete every entry with t - timestamp > 2000
CooldownPrune(cd, t) == [k \in {q \in DOMAIN cd : ~ (t - cd[q] > PruneMs)} |-> cd[k]]

\* lastTeleport && (now - lastTeleport) < 5000
OnCooldown(cd, key, t) == key \in DOMAIN cd /\ cd[key] # 0 /\ (t - cd[key]) < CooldownMs

\* the body of one movableObjects.forEach callback
TeleportOne(g, teleporter, obj, t) ==
    LET IsTarget(o) == o.id = teleporter.teleporterTarget /\ HasProperty(o, "teleporter")
        k == FindFirst(g.levelObjects, IsTarget)
        at == g.bodies[g.levelObjects[k].body].pos
        g1 == SetVelocity(SetPosition(g, obj.body, Pt(at.x, at.y - SpawnLift)), obj.body, Zero)
        last == g.bodies[obj.body].tpLast
        g2 == [g1 EXCEPT !.bodies[obj.body].tpEarly = @ \/ (last # 0 /\ t - last < CooldownMs),
                         !.bodies[obj.body].tpLast = t]
    IN  IF obj.id = teleporter.id THEN g
        ELSE IF OnCooldown(g.teleportCooldowns, obj.id, t) THEN g
        ELSE IF ~ BoundsOverlap(Bounds(g.bodies[obj.body]), Bounds(g.bodies[teleporter.body]))
             THEN g
        ELSE IF k = 0 THEN g
        ELSE [g2 EXCEPT !.teleportCooldowns =
                            CooldownPrune(CooldownSet(@, obj.id, t), t)]

RECURSIVE TeleportLoop(_, _, _, _, _, _)
\* teleporters.forEach(teleporter => movableObjects.forEach(obj => ...))
TeleportLoop(g, teleporters, movableObjects, i, j, t) ==
    IF i > Len(teleporters) THEN g
    ELSE IF j > Len(movableObjects)
         THEN TeleportLoop(g, teleporters, movableObjects, i + 1, 1, t)
         ELSE TeleportLoop(TeleportOne(g, teleporters[i], movableObjects[j], t),
                           teleporters, movableObjects, i, j + 1, t)

handleTeleporters(g, t) ==
    LET teleporters == SelectSeq(g.levelObjects,
                           LAMBDA o : HasProperty(o, "teleporter") /\ o.teleporterTarget # NoId)
        movableObjects ==
            Entities(g.marbles) \o Entities(g.emotes)
              \o Entities(SelectSeq(g.levelObjects, LAMBDA o : ~ o.isStatic))
              \o Entities(g.players)
    IN  IF Len(teleporters) = 0 THEN g
        ELSE TeleportLoop(g, teleporters, movableObjects, 1, 1, t)

----------------------------------------------------------------------------
(* Bounds enforcement *)

\* the comparison off by one: a body on the bound counts as fallen
FallenAtBound(g, h) == g.bodies[h].pos.y >= MinY

Fallen(g, h) == g.bodies[h].pos.y > MinY

\* setPosition and setVelocity({0, 0}) for every body of S
Respawn(g, S, pos) ==
    [g EXCEPT !.bodies = [h \in DOMAIN @ |->
                            IF h \in S THEN [@[h] EXCEPT !.pos = pos, !.vel = Zero]
                            ELSE @[h]]]

\* marbles handled like emotes: the fallen ones leave the world and the collection
RemoveFallenMarbles(g) ==
    LET gone == {h \in Handles(g.marbles) : Fallen(g, h)}
    IN  [[g EXCEPT !.world = @ \ gone] EXCEPT
            !.marbles = SelectSeq(@, LAMBDA m : m.body \notin gone)]

\* marbles and movable level objects past the bound return above the first spawnpoint
RespawnAtSpawnpoint(g) ==
    LET IsSpawnPoint(o) == HasProperty(o, "spawnpoint")
        k == FindFirst(g.levelObjects, IsSpawnPoint)
        sp == g.levelObjects[k]
        ms == {h \in Handles(g.marbles) : Fallen(g, h)}
        g1 == IF k # 0 THEN Respawn(g, ms, Pt(sp.x, sp.y - SpawnLift)) ELSE g
        os == {h \in Handles(SelectSeq(g1.levelObjects, LAMBDA o : ~ o.isStatic)) :
                  Fallen(g1, h)}
    IN  IF k # 0 THEN Respawn(g1, os, Pt(sp.x, sp.y - SpawnLift)) ELSE g1

\* emotes handled like marbles: the fallen ones return above the first spawnpoint
RespawnFallenEmotes(g) ==
    LET IsSpawnPoint(o) == HasProperty(o, "spawnpoint")
        k == FindFirst(g.levelObjects, IsSpawnPoint)
        sp == g.levelObjects[k]
        es == {h \in Handles(g.emotes) : Fallen(g, h)}
    IN  IF k # 0 THEN Respawn(g, es, Pt(sp.x, sp.y - SpawnLift)) ELSE g

\* this.emotes = this.emotes.filter(...), removing the fallen ones from the world
RemoveFallenEmotes(g) ==
    LET gone == {h \in Handles(g.emotes) : Fallen(g, h)}
    IN  [WorldRemoveAll(g, gone) EXCEPT
            !.emotes = SelectSeq(@, LAMBDA e : e.body \notin gone)]

\* the priority reversed: spawnpoint before playerspawn
RespawnPositionMarbleFirst(g) ==
    LET IsPlayerSpawn(o) == HasProperty(o, "playerspawn")
        IsSpawnPoint(o) == HasProperty(o, "spawnpoint")
        a == FindFirst(g.levelObjects, IsPlayerSpawn)
        b == FindFirst(g.levelObjects, IsSpawnPoint)
        k == IF b # 0 THEN b ELSE a
    IN  IF k # 0 THEN Pt(g.levelObjects[k].x, g.levelObjects[k].y) ELSE Pt(SafeX, SafeY)

\* respawn location of a fallen player: playerspawn, then spawnpoint, then (400, 200)
RespawnPosition(g) ==
    LET IsPlayerSpawn(o) == HasProperty(o, "playerspawn")
        IsSpawnPoint(o) == HasProperty(o, "spawnpoint")
        a == FindFirst(g.levelObjects, IsPlayerSpawn)
        b == FindFirst(g.levelObjects, IsSpawnPoint)
        k == IF a # 0 THEN a ELSE b
    IN  IF k # 0 THEN Pt(g.levelObjects[k].x, g.levelObjects[k].y) ELSE Pt(SafeX, SafeY)

\* the respawn moving the body only, the cached fields left to the next sync
RespawnFallenPlayersBodyOnly(g) ==
    LET at == RespawnPosition(g)
        ps == {g.players[k].body : k \in {q \in DOMAIN g.players : Fallen(g, g.players[q].body)}}
    IN  Respawn(g, ps, at)

RespawnFallenPlayers(g) ==
    LET at == RespawnPosition(g)
        ps == {g.players[k].body : k \in {q \in DOMAIN g.players : Fallen(g, g.players[q].body)}}
    IN  [Respawn(g, ps, at) EXCEPT
            !.players = [k \in DOMAIN @ |->
                           IF @[k].body \in ps THEN [@[k] EXCEPT !.x = at.x, !.y = at.y]
                           ELSE @[k]]]

EnforceBounds(g) == RespawnFallenPlayers(RemoveFallenEmotes(RespawnAtSpawnpoint(g)))

----------------------------------------------------------------------------
(* One tick: Matter.Engine.update, then updateGameState *)

\* updateGameState up to the XP award
updateGameStateHead(g) ==
    LET g1 == SyncPositions(updateBeamEffects(applyPlayerInputs(g)))
    IN  IF checkWinCondition(g1).win THEN AwardXp(g1) ELSE g1

\* the level name of this.emit('loadNextLevel', ...), "" when nothing is emitted
EmittedNextLevel(g) ==
    LET winResult == checkWinCondition(g)
    IN  IF winResult.win /\ winResult.nextLevel # "" THEN winResult.nextLevel ELSE ""

\* gameLogic.on('loadNextLevel', ...): the listener of the socket layer
onLoadNextLevel(g, nextLevelName, t) ==
    IF nextLevelName # "" /\ existsSync(nextLevelName)
    THEN loadLevel(g, LevelFiles[nextLevelName], t)
    ELSE g

\* updateGameState after the emit
updateGameStateTail(g, t) == EnforceBounds(handleTeleporters(g, t))

\* the setInterval callback of startPhysicsLoop: the whole tick
PhysicsLoopTick(g, mv, t) ==
    LET g1 == updateGameStateHead(EngineUpdate(g, mv))
        g2 == onLoadNextLevel(g1, EmittedNextLevel(g1), t)
    IN  IF g2.threw THEN g2 ELSE updateGameStateTail(g2, t)

\* getGameState(): the plain records of the live entities
getGameState(g) ==
    [players |-> [k \in DOMAIN g.players |->
                    [id |-> g.players[k].id, x |-> g.players[k].x, y |-> g.players[k].y,
                     beamActive |-> g.players[k].beamActive,
                     beamTarget |-> g.players[k].beamTarget,
                     xp |-> g.players[k].xp, level |-> g.players[k].level]],
     marbles |-> [k \in DOMAIN g.marbles |->
                    [id |-> g.marbles[k].id, x |-> g.bodies[g.marbles[k].body].pos.x,
                     y |-> g.bodies[g.marbles[k].body].pos.y, type |-> g.marbles[k].type]],
     emotes |-> [k \in DOMAIN g.emotes |->
                    [id |-> g.emotes[k].id, x |-> g.bodies[g.emotes[k].body].pos.x,
                     y |-> g.bodies[g.emotes[k].body].pos.y, type |-> g.emotes[k].type]],
     levelObjects |-> [k \in DOMAIN g.levelObjects |->
                    [id |-> g.levelObjects[k].id,
                     x |-> g.bodies[g.levelObjects[k].body].pos.x,
                     y |-> g.bodies[g.levelObjects[k].body].pos.y,
                     isStatic |-> g.levelObjects[k].isStatic,
                     nextLevel |-> g.levelObjects[k].nextLevel,
                     properties |-> g.levelObjects[k].properties]],
     connections |-> [k \in DOMAIN g.constraints |->
                    [id |-> g.constraints[k].id, type |-> g.constraints[k].type,
                     bodyA |-> g.constraints[k].bodyA, bodyB |-> g.constraints[k].bodyB]]]

----------------------------------------------------------------------------
(* Handlers.  Node runs a callback to completion before it dispatches the  *)
(* next one: a handler starts only when no other handler is on the stack.  *)

\* a preemptive scheduler: a callback may start while another one is running
EventLoopPreempts == ~ crashed

EventLoopIdle == pc = "idle" /\ ~ crashed

NoRun == [goal |-> NoId, marble |-> 0, awards |-> 0, emits |-> 0]

Engine == <<players, marbles, emotes, currentLevel, levelObjects, constraints,
            teleportCooldowns, world, bodies, crashed>>

Ufos(g) == {h \in DOMAIN g.bodies : g.bodies[h].kind = "player"}

\* io.on('connection', ...): a new socket with an id of its own
Connect(id) ==
    /\ EventLoopIdle
    /\ sockets[id] = "new"
    /\ sockets' = [sockets EXCEPT ![id] = "open"]
    /\ ignored' = FALSE
    /\ UNCHANGED <<editor, twitch, Engine, now, pc, pending, snapPc, winRun, prevLevel>>

\* socket.on('login', ...): addPlayer, loginSuccess, playerJoined, gameState
\* the snapshot sent first and built before the player is added
loginHandlerStateFirst(g, socks, socketId) ==
    LET player == addPlayerResult(g, socketId)
        others == {o \in DOMAIN socks : o # socketId /\ socks[o] = "open"}
    IN  [engine |-> addPlayer(g, socketId),
         emitted |-> << [to |-> {socketId}, event |-> "gameState", data |-> getGameState(g)],
                        [to |-> {socketId}, event |-> "loginSuccess", data |-> player],
                        [to |-> others, event |-> "playerJoined", data |-> player] >>]

\* socket.on('login', ...): the engine after addPlayer and the messages emitted, in
\* order; socket.broadcast.emit reaches every other connected socket
loginHandler(g, socks, socketId) ==
    LET player == addPlayerResult(g, socketId)
        g1 == addPlayer(g, socketId)
        others == {o \in DOMAIN socks : o # socketId /\ socks[o] = "open"}
    IN  [engine |-> g1,
         emitted |-> << [to |-> {socketId}, event |-> "loginSuccess", data |-> player],
                        [to |-> others, event |-> "playerJoined", data |-> player],
                        [to |-> {socketId}, event |-> "gameState", data |-> getGameState(g1)] >>]

Login(id) ==
    /\ EventLoopIdle
    /\ sockets[id] = "open"
    /\ Cardinality(Ufos(G)) < MaxUfos
    /\ SetG(loginHandler(G, sockets, id).engine)
    /\ snapPc' = pc
    /\ ignored' = FALSE
    /\ UNCHANGED <<editor, twitch, now, sockets, pc, pending, winRun, prevLevel>>

\* socket.on('disconnect', ...)
Disconnect(id) ==
    /\ EventLoopIdle
    /\ sockets[id] = "open"
    /\ SetG(removePlayer(G, id))
    /\ sockets' = [sockets EXCEPT ![id] = IF id \in PlayerIds(G) THEN "left" ELSE "closed"]
    /\ ignored' = FALSE
    /\ UNCHANGED <<editor, twitch, now, pc, pending, snapPc, winRun, prevLevel>>

\* socket.on('playerInput', ...)
PlayerInput(id, input) ==
    /\ EventLoopIdle
    /\ sockets[id] = "open"
    /\ SetG(updatePlayerInput(G, id, input))
    /\ ignored' = (id \notin PlayerIds(G))
    /\ UNCHANGED <<editor, twitch, now, sockets, pc, pending, snapPc, winRun, prevLevel>>

\* socket.on('beamToggle', ...)
BeamToggle(id, active) ==
    /\ EventLoopIdle
    /\ sockets[id] = "open"
    /\ SetG(activateBeam(G, id, active))
    /\ ignored' = (id \notin PlayerIds(G))
    /\ UNCHANGED <<editor, twitch, now, sockets, pc, pending, snapPc, winRun, prevLevel>>

\* socket.on('beamInteraction', ...)
BeamInteraction(id) ==
    /\ EventLoopIdle
    /\ sockets[id] = "open"
    /\ SetG(handleBeamInteraction(G, id))
    /\ ignored' = (id \notin PlayerIds(G))
    /\ UNCHANGED <<editor, twitch, now, sockets, pc, pending, snapPc, winRun, prevLevel>>

\* socket.on('loadLevel', ...)
LoadLevelRequest(id, levelName) ==
    /\ EventLoopIdle
    /\ sockets[id] = "open"
    /\ IF existsSync(levelName)
       THEN /\ SetG(loadLevel(G, LevelFiles[levelName], now))
            /\ prevLevel' = currentLevel.name
            /\ winRun' = NoRun
       ELSE UNCHANGED <<Engine, prevLevel, winRun>>
    /\ ignored' = FALSE
    /\ UNCHANGED <<editor, twitch, now, sockets, pc, pending, snapPc>>

\* socket.on('spawnTestEmote', ...)
SpawnTestEmote(id, r, dx) ==
    /\ EventLoopIdle
    /\ sockets[id] = "open"
    /\ Len(emotes) < MaxEmotes
    /\ SetG(spawnEmote(G, now, r, dx))
    /\ ignored' = FALSE
    /\ UNCHANGED <<editor, twitch, now, sockets, pc, pending, snapPc, winRun, prevLevel>>

\* the 100 ms setInterval of setupSocketHandlers: getGameState, then io.emit
Broadcast ==
    /\ EventLoopIdle
    /\ snapPc' = pc
    /\ ignored' = FALSE
    /\ UNCHANGED <<editor, twitch, Engine, now, sockets, pc, pending, winRun, prevLevel>>

\* wall-clock time passes between two callbacks
ClockAdvance ==
    /\ EventLoopIdle
    /\ now < MaxNow
    /\ now' = now + ClockStep
    /\ UNCHANGED <<editor, twitch, Engine, sockets, pc, pending, snapPc, winRun, prevLevel, ignored>>

\* observation of one tick: the awards and emits of the marble arrival it belongs to
NextWinRun(g1, g2, mv, loaded) ==
    LET pair == FirstWinPair(g1)
        goal == g1.levelObjects[pair[1]].id
        h == g1.marbles[pair[2]].body
        cont == winRun.goal = goal /\ winRun.marble = h /\ h \notin DOMAIN mv
        a == IF Len(g1.players) > 0 THEN 1 ELSE 0
        e == IF EmittedNextLevel(g1) # "" THEN 1 ELSE 0
        Cap(n) == IF n > 2 THEN 2 ELSE n
    IN  IF ~ checkWinCondition(g1).win \/ loaded THEN NoRun
        ELSE IF g2.bodies[h].pos # g1.bodies[h].pos THEN NoRun
        ELSE [goal |-> goal, marble |-> h,
              awards |-> Cap((IF cont THEN winRun.awards ELSE 0) + a),
              emits |-> Cap((IF cont THEN winRun.emits ELSE 0) + e)]

\* the 60 Hz setInterval of startPhysicsLoop, run to completion: the new state g2 is
\* PhysicsLoopTick(G, mv, now)
Tick(mv) ==
    /\ EventLoopIdle
    /\ \A k \in DOMAIN players : players[k].level <= MaxLevel
    /\ LET g1 == updateGameStateHead(EngineUpdate(G, mv))
           ev == EmittedNextLevel(g1)
           loaded == ev # "" /\ existsSync(ev)
           gl == onLoadNextLevel(g1, ev, now)
           g2 == IF gl.threw THEN gl ELSE updateGameStateTail(gl, now)
       IN  /\ SetG(g2)
           /\ winRun' = NextWinRun(g1, g2, mv, loaded)
           /\ prevLevel' = IF loaded THEN currentLevel.name ELSE prevLevel
    /\ ignored' = FALSE
    /\ UNCHANGED <<editor, twitch, now, sockets, pc, pending, snapPc>>

----------------------------------------------------------------------------
(* The engine of server/gameLogic.js: the same socket layer over the       *)
(* GameLogic of that file. No client logs in here: with this.players empty *)
(* applyPlayerInputs, updateBeamEffects, the position sync, the XP award   *)
(* and the player respawn of that file iterate over nothing                *)

\* bodies the world of one run may hold
MaxWorld == 6

\* loadLevel up to this.currentLevel = levelData: the bodies of the level objects
\* leave the world, levelObjects and marbles become new empty arrays
gameLogic_loadLevelClear(g, levelData) ==
    LET g1 == [WorldRemoveAll(g, Handles(g.levelObjects)) EXCEPT !.levelObjects = << >>]
    IN  [g1 EXCEPT !.marbles = << >>, !.currentLevel = levelData]

\* loadLevel(levelData): the clearing, then a body per rectangle or circle and a
\* marble per spawnpoint; levelData.objects.forEach throws without objects
gameLogic_loadLevel(g, levelData, t) ==
    LET g1 == gameLogic_loadLevelClear(MarkStale(g), levelData)
    IN  IF "objects" \notin DOMAIN levelData THEN [g1 EXCEPT !.threw = TRUE]
        ELSE CreateObjects(g1, levelData.objects, 1, t)

\* spawnEmote(emoteUrl, emoteName): above the first spawnpoint, nothing without one
gameLogic_spawnEmote(g, t, r, dx) ==
    LET IsSpawnPoint(o) == HasProperty(o, "spawnpoint")
        k == FindFirst(g.levelObjects, IsSpawnPoint)
        at == g.levelObjects[k]
        h == NewHandle(g)
        g1 == WorldAdd(g, h, NewBody("emote", EmoteId(t, r), Pt(at.x + dx, at.y - SpawnLift),
                                     "circle", EmoteRadius, EmoteRadius, FALSE))
    IN  IF k = 0 THEN g
        ELSE [g1 EXCEPT !.emotes = Append(@, [id |-> EmoteId(t, r), body |-> h,
                                               type |-> "emote"])]

\* gameLogic.on('loadNextLevel', ...) of the socket layer, over this engine
gameLogic_onLoadNextLevel(g, nextLevelName, t) ==
    IF nextLevelName # "" /\ existsSync(nextLevelName)
    THEN gameLogic_loadLevel(g, LevelFiles[nextLevelName], t)
    ELSE g

\* updateGameState after the emit: marbles and movable objects respawn, fallen
\* emotes are removed; this file has no teleporters
gameLogic_updateGameStateTail(g) == RemoveFallenEmotes(RespawnAtSpawnpoint(g))

\* the setInterval callback of startPhysicsLoop: the whole tick
gameLogic_PhysicsLoopTick(g, mv, t) ==
    LET g1 == EngineUpdate(g, mv)
        g2 == gameLogic_onLoadNextLevel(g1, EmittedNextLevel(g1), t)
    IN  IF g2.threw THEN g2 ELSE gameLogic_updateGameStateTail(g2)

\* socket.on('loadLevel', ...)
GameLogicLoadLevelRequest(id, levelName) ==
    /\ EventLoopIdle
    /\ sockets[id] = "open"
    /\ Cardinality(world) < MaxWorld
    /\ IF existsSync(levelName)
       THEN /\ SetG(gameLogic_loadLevel(G, LevelFiles[levelName], now))
            /\ prevLevel' = currentLevel.name
            /\ winRun' = NoRun
       ELSE UNCHANGED <<Engine, prevLevel, winRun>>
    /\ ignored' = FALSE
    /\ UNCHANGED <<editor, twitch, now, sockets, pc, pending, snapPc>>

\* socket.on('spawnTestEmote', ...)
GameLogicSpawnTestEmote(id, r, dx) ==
    /\ EventLoopIdle
    /\ sockets[id] = "open"
    /\ Len(emotes) < MaxEmotes
    /\ Cardinality(world) < MaxWorld
    /\ SetG(gameLogic_spawnEmote(G, now, r, dx))
    /\ ignored' = FALSE
    /\ UNCHANGED <<editor, twitch, now, sockets, pc, pending, snapPc, winRun, prevLevel>>

\* the 60 Hz setInterval of startPhysicsLoop, run to completion
GameLogicTick(mv) ==
    /\ EventLoopIdle
    /\ Cardinality(world) < MaxWorld
    /\ LET g1 == EngineUpdate(G, mv)
           ev == EmittedNextLevel(g1)
           loaded == ev # "" /\ existsSync(ev)
           g2 == gameLogic_PhysicsLoopTick(G, mv, now)
       IN  /\ SetG(g2)
           /\ winRun' = NextWinRun(g1, g2, mv, loaded)
           /\ prevLevel' = IF loaded THEN currentLevel.name ELSE prevLevel
    /\ ignored' = FALSE
    /\ UNCHANGED <<editor, twitch, now, sockets, pc, pending, snapPc>>

----------------------------------------------------------------------------
(* Level editor (client/js/editor.js) *)

\* an object id: `${baseName}_${counter}`; an id of another origin has counter 0
EdId(baseName, counter) == <<baseName, counter>>

\* the fields of a level object and of a connection the editor's checks read
EdObject(id, shape, properties) == [id |-> id, shape |-> shape, properties |-> properties]
EdConnection(bodyA, bodyB) == [bodyA |-> bodyA, bodyB |-> bodyB]

\* this.connectionStart: the object the connect tool holds, a reference. index is the
\* place of that object in this.level.objects, 0 once the array no longer holds it;
\* id is the id the object carries
NullStart == [held |-> FALSE, index |-> 0, id |-> EdId("", 0)]

\* the held reference after the object at place i left the array
StartAfterRemoval(start, i) ==
    IF start.index = i THEN [start EXCEPT !.index = 0]
    ELSE IF start.index > i THEN [start EXCEPT !.index = @ - 1]
    ELSE start

\* the held reference after this.level was replaced by a new object
StartAfterReplace(start) == [start EXCEPT !.index = 0]

\* this.level of a new editor, and of newLevel()
EmptyLevel == [name |-> "new-level", objects |-> << >>, connections |-> << >>]

\* a new editor page: the constructor's level, the form, the JSON panel's text, the
\* level files the server has written for this editor's requests, and whether the
\* last saveLevel sent a request
NewEditor ==
    [level |-> EmptyLevel, levelName |-> "", textarea |-> EmptyLevel,
     stored |-> << >>, sent |-> FALSE, connectionStart |-> NullStart]

\* the counter never advances: the first candidate is taken even when it is in use
generateFirstObjectName(objects, baseName) == EdId(baseName, 1)

RECURSIVE generateUniqueObjectNameFrom(_, _, _)
\* while (this.level.objects.some(obj => obj.id === candidateName)) counter++
generateUniqueObjectNameFrom(objects, baseName, counter) ==
    IF \E i \in DOMAIN objects : objects[i].id = EdId(baseName, counter)
    THEN generateUniqueObjectNameFrom(objects, baseName, counter + 1)
    ELSE EdId(baseName, counter)

generateUniqueObjectName(objects, baseName) ==
    generateUniqueObjectNameFrom(objects, baseName, 1)

\* the objects whose id an earlier object carries, by position
Duplicates(objects) ==
    {i \in DOMAIN objects : \E j \in 1..(i - 1) : objects[j].id = objects[i].id}

RECURSIVE RenameDuplicates(_, _)
\* duplicates.forEach(obj => { obj.id = this.generateUniqueObjectName(obj.shape) })
RenameDuplicates(objects, todo) ==
    IF todo = {} THEN objects
    ELSE LET i == Min(todo)
         IN  RenameDuplicates(
                 [objects EXCEPT ![i].id = generateUniqueObjectName(objects, objects[i].shape)],
                 todo \ {i})

\* one end of a connection: if (duplicates.some(obj => obj.id === end))
\*                             end = duplicates.find(obj => obj.id === end).id
\* where the duplicates already carry their new ids
FixEnd(end, objects, duplicates) ==
    LET hit == {i \in duplicates : objects[i].id = end}
    IN  IF hit # {} THEN objects[Min(hit)].id ELSE end

validateAndFixDuplicateIds(level) ==
    LET duplicates == Duplicates(level.objects)
        objects == RenameDuplicates(level.objects, duplicates)
    IN  [level EXCEPT
            !.objects = objects,
            !.connections = [c \in DOMAIN @ |->
                [bodyA |-> FixEnd(@[c].bodyA, objects, duplicates),
                 bodyB |-> FixEnd(@[c].bodyB, objects, duplicates)]]]

\* the goal check left out
saveLevelWithoutGoal(ed) ==
    LET hasSpawn == \E i \in DOMAIN ed.level.objects :
                        "spawnpoint" \in ed.level.objects[i].properties
        level == [ed.level EXCEPT !.name = ed.levelName]
    IN  IF ed.levelName = "" THEN [ed EXCEPT !.sent = FALSE]
        ELSE IF ~ hasSpawn THEN [ed EXCEPT !.sent = FALSE]
        ELSE [ed EXCEPT !.level = level, !.sent = TRUE,
                        !.stored = [n \in (DOMAIN @) \cup {ed.levelName} |->
                                       IF n = ed.levelName THEN level ELSE @[n]]]

\* saveLevel, with the server's POST /api/levels/:levelName writing the file
saveLevel(ed) ==
    LET hasSpawn == \E i \in DOMAIN ed.level.objects :
                        "spawnpoint" \in ed.level.objects[i].properties
        hasGoal == \E i \in DOMAIN ed.level.objects :
                       "goal" \in ed.level.objects[i].properties
        level == [ed.level EXCEPT !.name = ed.levelName]
    IN  IF ed.levelName = "" THEN [ed EXCEPT !.sent = FALSE]
        ELSE IF ~ hasSpawn THEN [ed EXCEPT !.sent = FALSE]
        ELSE IF ~ hasGoal THEN [ed EXCEPT !.sent = FALSE]
        ELSE [ed EXCEPT !.level = level, !.sent = TRUE,
                        !.stored = [n \in (DOMAIN @) \cup {ed.levelName} |->
                                       IF n = ed.levelName THEN level ELSE @[n]]]

\* createRectangle(x, y): id generateUniqueObjectName('rect'), shape 'rectangle'
createRectangle(ed, properties) ==
    [ed EXCEPT !.level.objects =
        Append(@, EdObject(generateUniqueObjectName(@, "rect"), "rectangle", properties))]

\* createCircle(x, y): id generateUniqueObjectName('circle'), shape 'circle'
createCircle(ed, properties) ==
    [ed EXCEPT !.level.objects =
        Append(@, EdObject(generateUniqueObjectName(@, "circle"), "circle", properties))]

\* createConnection(objA, objB): bodyA: objA.id, bodyB: objB.id, pushed
createConnection(ed, objA, objB) ==
    [ed EXCEPT !.level.connections = Append(@, EdConnection(objA.id, objB.id))]

\* handleConnect(x, y): clicked is the place of the object under the pointer, 0 for
\* empty space
handleConnect(ed, clicked) ==
    IF clicked # 0
    THEN IF ~ ed.connectionStart.held
         THEN [ed EXCEPT !.connectionStart =
                  [held |-> TRUE, index |-> clicked, id |-> ed.level.objects[clicked].id]]
         ELSE IF ed.connectionStart.index = clicked
         THEN [ed EXCEPT !.connectionStart = NullStart]
         ELSE [createConnection(ed, ed.connectionStart, ed.level.objects[clicked])
                  EXCEPT !.connectionStart = NullStart]
    ELSE IF ed.connectionStart.held
         THEN [ed EXCEPT !.connectionStart = NullStart]
         ELSE ed

\* deleteObject(obj) for the object at place i: spliced out, and the connections
\* that carry its id filtered out; this.connectionStart is not touched
deleteObject(ed, i) ==
    LET id == ed.level.objects[i].id
        Keep(c) == c.bodyA # id /\ c.bodyB # id
    IN  [ed EXCEPT
            !.level.objects = SubSeq(@, 1, i - 1) \o SubSeq(@, i + 1, Len(@)),
            !.level.connections = SelectSeq(@, Keep),
            !.connectionStart = StartAfterRemoval(@, i)]

----------------------------------------------------------------------------
(* Twitch chat (TwitchChat) *)

\* this.emoteSpawnCooldown = 0.1, in tenths
emoteSpawnCooldown == 1

\* const EMOTE_COOLDOWN = 2000: the documented time between emote spawns, in ms
EMOTE_COOLDOWN == 2000

\* emote ids that chat messages carry
EmoteNames == {"25", "88"}

\* a new TwitchChat: no spawn yet, nothing cached, no verification awaited; lastCall
\* and tooSoon observe the calls of gameLogic.spawnEmote
NewTwitch ==
    [lastEmoteSpawn |-> 0, emoteCache |-> {}, awaiting |-> << >>, lastCall |-> 0,
     tooSoon |-> FALSE]

\* now - this.lastEmoteSpawn < this.emoteSpawnCooldown
CooldownActive(tw, t) == 10 * (t - tw.lastEmoteSpawn) < emoteSpawnCooldown

\* this.gameLogic.spawnEmote(emoteUrl, emoteName) is called at time t
CallSpawnEmote(tw, t) ==
    [tw EXCEPT !.tooSoon = @ \/ (tw.lastCall # 0 /\ t - tw.lastCall < EMOTE_COOLDOWN),
               !.lastCall = t]

\* the awaited requests without the i-th
Answered(awaiting, i) == SubSeq(awaiting, 1, i - 1) \o SubSeq(awaiting, i + 1, Len(awaiting))

----------------------------------------------------------------------------
(* Start of the process: new GameLogic(), then the default level if its    *)
(* file exists (server/index.js)                                           *)

EmptyEngine ==
    [players |-> << >>, marbles |-> << >>, emotes |-> << >>, currentLevel |-> NullLevel,
     levelObjects |-> << >>, constraints |-> << >>, teleportCooldowns |-> << >>,
     world |-> {}, bodies |-> << >>, threw |-> FALSE]

Boot(defaultLevel) ==
    LET g == IF existsSync(defaultLevel)
             THEN loadLevel(EmptyEngine, LevelFiles[defaultLevel], BootTime)
             ELSE EmptyEngine
    IN  /\ players = g.players
        /\ marbles = g.marbles
        /\ emotes = g.emotes
        /\ currentLevel = g.currentLevel
        /\ levelObjects = g.levelObjects
        /\ constraints = g.constraints
        /\ teleportCooldowns = g.teleportCooldowns
        /\ world = g.world
        /\ bodies = g.bodies
        /\ crashed = FALSE
        /\ now = BootTime
        /\ sockets = [id \in SocketIds |-> "new"]
        /\ pc = "idle"
        /\ pending = ""
        /\ snapPc = "none"
        /\ winRun = NoRun
        /\ prevLevel = ""
        /\ ignored = FALSE
        /\ editor = NewEditor
        /\ twitch = NewTwitch

----------------------------------------------------------------------------
(* Sessions: no level file at start; two clients connect, log in, steer,   *)
(* beam and leave while the loop ticks                                     *)

InputChoices == {Input(FALSE, FALSE, FALSE, TRUE)}

PointsSession == {Pt(960, 620)}

Init == Boot("level1")

Next ==
    \/ \E id \in SocketIds : Connect(id)
    \/ \E id \in SocketIds : Login(id)
    \/ \E id \in SocketIds : Disconnect(id)
    \/ \E id \in SocketIds, input \in InputChoices : PlayerInput(id, input)
    \/ \E id \in SocketIds, active \in BOOLEAN : BeamToggle(id, active)
    \/ \E id \in SocketIds : BeamInteraction(id)
    \/ \E mv \in Moves(G, {"player"}, PointsSession) : Tick(mv)

Spec == Init /\ [][Next]_vars

----------------------------------------------------------------------------
(* Level loads: one client loads L and M, spawns emotes, and logs in; the  *)
(* physics step lets emotes and movable level objects fall off the world   *)

PointsLevels == {Pt(300, 1300)}

NextLevels ==
    \/ Connect(SockId(1))
    \/ Login(SockId(1))
    \/ \E levelName \in {"L", "M", "level2"} : LoadLevelRequest(SockId(1), levelName)
    \/ \E dx \in RandomOffsets : SpawnTestEmote(SockId(1), 0, dx)
    \/ \E mv \in Moves(G, {"emote", "object"}, PointsLevels) : Tick(mv)

SpecLevels == Init /\ [][NextLevels]_vars

----------------------------------------------------------------------------
(* Wins: level W is the default level; its goals name level M and a level  *)
(* that has no file; the physics step carries the marble to either goal    *)

PointsWin == {Pt(100, 900), Pt(400, 900)}

InitWin == Boot("W")

NextWin ==
    \/ \E id \in SocketIds : Connect(id)
    \/ \E id \in SocketIds : Login(id)
    \/ \E id \in SocketIds : Disconnect(id)
    \/ \E mv \in Moves(G, {"marble"}, PointsWin) : Tick(mv)
    \/ Broadcast

SpecWin == InitWin /\ [][NextWin]_vars

----------------------------------------------------------------------------
(* Teleporters: level T is the default level; the clock runs; the physics  *)
(* step carries the marble or a player onto the first teleporter           *)

PointsTeleport == {Pt(300, 500)}

InitTeleport == Boot("T")

NextTeleport ==
    \/ Connect(SockId(1))
    \/ Login(SockId(1))
    \/ \E mv \in Moves(G, {"marble", "player"}, PointsTeleport) : Tick(mv)
    \/ ClockAdvance

SpecTeleport == InitTeleport /\ [][NextTeleport]_vars

----------------------------------------------------------------------------
(* Dangling references: level D is the default level; the physics step     *)
(* carries the marble, the movable object or a player onto its teleporters *)

PointsDangling == {Pt(300, 500), Pt(800, 500)}

InitDangling == Boot("D")

NextDangling ==
    \/ Connect(SockId(1))
    \/ Login(SockId(1))
    \/ LoadLevelRequest(SockId(1), "D")
    \/ \E mv \in Moves(G, {"marble", "object", "player"}, PointsDangling) : Tick(mv)

SpecDangling == InitDangling /\ [][NextDangling]_vars

----------------------------------------------------------------------------
(* A malformed next level: level V is the default level and its goal names *)
(* level X, whose file has no objects array; the client reloads V          *)

PointsMalformed == {Pt(100, 900), Pt(400, 900), Pt(400, 1300)}

InitMalformed == Boot("V")

NextMalformed ==
    \/ Connect(SockId(1))
    \/ Login(SockId(1))
    \/ LoadLevelRequest(SockId(1), "V")
    \/ \E mv \in Moves(G, {"marble", "player"}, PointsMalformed) : Tick(mv)

SpecMalformed == InitMalformed /\ [][NextMalformed]_vars

----------------------------------------------------------------------------
(* Joins: the server starts without a level; a client loads L or P;        *)
(* players join before and after                                           *)

NextJoin ==
    \/ \E id \in SocketIds : Connect(id)
    \/ \E id \in SocketIds : Login(id)
    \/ Disconnect(SockId(1))
    \/ \E levelName \in {"L", "P"} : LoadLevelRequest(SockId(1), levelName)
    \/ \E mv \in Moves(G, {"player"}, PointsSession) : Tick(mv)

SpecJoin == Init /\ [][NextJoin]_vars

----------------------------------------------------------------------------
(* Inputs: no level is loaded; the first of two players changes the keys   *)
(* held between ticks, any number of times                                 *)

InputsHeld ==
    {Input(FALSE, FALSE, FALSE, TRUE), Input(TRUE, FALSE, TRUE, FALSE),
     Input(FALSE, FALSE, FALSE, FALSE)}

NextInput ==
    \/ \E id \in SocketIds : Connect(id)
    \/ \E id \in SocketIds : Login(id)
    \/ Disconnect(SockId(1))
    \/ \E input \in InputsHeld : PlayerInput(SockId(1), input)
    \/ \E mv \in Moves(G, {"player"}, PointsSession) : Tick(mv)

SpecInput == Init /\ [][NextInput]_vars

----------------------------------------------------------------------------
(* Falls: level L is the default level; the physics step carries the       *)
(* marble or an emote onto the lower bound or just past it                 *)

PointsFall == {Pt(300, MinY), Pt(300, MinY + 1)}

InitFall == Boot("L")

NextFall ==
    \/ Connect(SockId(1))
    \/ Login(SockId(1))
    \/ \E dx \in RandomOffsets : SpawnTestEmote(SockId(1), 0, dx)
    \/ \E mv \in Moves(G, {"marble", "emote"}, PointsFall) : Tick(mv)

SpecFall == InitFall /\ [][NextFall]_vars

----------------------------------------------------------------------------
(* Marbles: level S is the default level; a client loads L or S again; the *)
(* physics step carries marbles onto the lower bound or just past it       *)

InitMarbles == Boot("S")

NextMarbles ==
    \/ Connect(SockId(1))
    \/ Login(SockId(1))
    \/ \E levelName \in {"L", "S"} : LoadLevelRequest(SockId(1), levelName)
    \/ \E mv \in Moves(G, {"marble", "object"}, PointsFall) : Tick(mv)

SpecMarbles == InitMarbles /\ [][NextMarbles]_vars

----------------------------------------------------------------------------
(* Respawns: level L is the default level; a client loads P or N;          *)
(* the physics step carries a player or a movable level object just past   *)
(* the lower bound                                                         *)

PointsRespawn == {Pt(300, MinY + 1)}

InitRespawn == Boot("L")

NextRespawn ==
    \/ Connect(SockId(1))
    \/ Login(SockId(1))
    \/ \E levelName \in {"P", "N"} : LoadLevelRequest(SockId(1), levelName)
    \/ \E mv \in Moves(G, {"player", "object"}, PointsRespawn) : Tick(mv)

SpecRespawn == InitRespawn /\ [][NextRespawn]_vars

----------------------------------------------------------------------------
(* The level editor: a user pastes a level into the JSON panel, applies    *)
(* it, types a level name, saves, starts a new level                       *)

Server == <<Engine, now, sockets, pc, pending, snapPc, winRun, prevLevel, ignored>>

\* the objects a pasted level is made of: two carry the id "a", two carry ids of the
\* form generateUniqueObjectName gives
Palette ==
    {EdObject(EdId("a", 0), "rectangle", {"spawnpoint"}),
     EdObject(EdId("a", 0), "circle", {"goal"}),
     EdObject(EdId("rectangle", 1), "rectangle", {}),
     EdObject(EdId("rectangle", 2), "rectangle", {"spawnpoint"})}

EndChoices == {EdId("a", 0), EdId("rectangle", 1)}

\* the levels a user may paste: up to MaxObjects objects and at most one connection
PastedLevels ==
    {[name |-> "pasted", objects |-> objects, connections |-> connections] :
        objects \in UNION {[1..n -> Palette] : n \in 0..MaxObjects},
        connections \in {<< >>} \cup {<<EdConnection(a, b)>> : a \in EndChoices, b \in EndChoices}}

\* the user replaces the text of the JSON panel, once
PasteJson(text) ==
    /\ editor.textarea = EmptyLevel
    /\ editor' = [editor EXCEPT !.textarea = text]
    /\ UNCHANGED <<Server, twitch>>

applyJsonChanges ==
    /\ editor' = [editor EXCEPT !.level = validateAndFixDuplicateIds(editor.textarea),
                                !.levelName = editor.textarea.name,
                                !.connectionStart = StartAfterReplace(@)]
    /\ UNCHANGED <<Server, twitch>>

newLevel ==
    /\ editor' = [editor EXCEPT !.level = EmptyLevel, !.levelName = EmptyLevel.name,
                                !.connectionStart = StartAfterReplace(@)]
    /\ UNCHANGED <<Server, twitch>>

\* the user types into the level name field
TypeLevelName(name) ==
    /\ editor' = [editor EXCEPT !.levelName = name]
    /\ UNCHANGED <<Server, twitch>>

SaveLevel ==
    /\ editor' = saveLevel(editor)
    /\ UNCHANGED <<Server, twitch>>

NextEditor ==
    \/ \E text \in PastedLevels : PasteJson(text)
    \/ applyJsonChanges
    \/ newLevel
    \/ \E name \in {"", "lvl"} : TypeLevelName(name)
    \/ SaveLevel

SpecEditor == Init /\ [][NextEditor]_vars

----------------------------------------------------------------------------
(* The level editor's tools: a user draws rectangles and circles, clicks   *)
(* objects and empty space with the connect tool, deletes objects          *)

\* connections a level is drawn with
MaxConnections == 1

\* the property boxes ticked in the form
FormProperties == {{}}

\* a click with the rectangle tool
CreateRectangle(properties) ==
    /\ Len(editor.level.objects) < MaxObjects
    /\ editor' = createRectangle(editor, properties)
    /\ UNCHANGED <<Server, twitch>>

\* a click with the circle tool
CreateCircle(properties) ==
    /\ Len(editor.level.objects) < MaxObjects
    /\ editor' = createCircle(editor, properties)
    /\ UNCHANGED <<Server, twitch>>

\* a click with the connect tool, on the object at place clicked or on empty space
HandleConnect(clicked) ==
    /\ clicked \in 0..Len(editor.level.objects)
    /\ Len(editor.level.connections) < MaxConnections
    /\ editor' = handleConnect(editor, clicked)
    /\ UNCHANGED <<Server, twitch>>

\* the delete tool, the Delete key or the object list's button, on the object at
\* place i
DeleteObject(i) ==
    /\ i \in DOMAIN editor.level.objects
    /\ editor' = deleteObject(editor, i)
    /\ UNCHANGED <<Server, twitch>>

NextTools ==
    \/ \E properties \in FormProperties : CreateRectangle(properties)
    \/ \E properties \in FormProperties : CreateCircle(properties)
    \/ \E clicked \in 0..MaxObjects : HandleConnect(clicked)
    \/ \E i \in 1..MaxObjects : DeleteObject(i)

SpecTools == Init /\ [][NextTools]_vars

----------------------------------------------------------------------------
(* Twitch chat: level L is loaded; chat messages with emotes arrive, the   *)
(* emote URL checks are answered in any order, time passes                 *)

\* time passes between two chat messages
ChatClockAdvance ==
    /\ EventLoopIdle
    /\ now < MaxNow
    /\ now' = now + ChatStep
    /\ UNCHANGED <<editor, twitch, Engine, sockets, pc, pending, snapPc, winRun, prevLevel, ignored>>

\* client.on('message'): a chat message of another user whose first emote is emoteId;
\* runs up to the first await that yields: a cached emote is spawned and lastEmoteSpawn
\* set before any other handler runs, an unknown one leaves axios.head in flight
onMessage(emoteId) ==
    /\ EventLoopIdle
    /\ Len(emotes) < MaxChatEmotes
    /\ IF CooldownActive(twitch, now)
       THEN UNCHANGED <<twitch, Engine>>
       ELSE IF emoteId \in twitch.emoteCache
       THEN /\ \E r \in {0, 1} : SetG(spawnEmote(G, now, r, 0))
            /\ twitch' = [CallSpawnEmote(twitch, now) EXCEPT !.lastEmoteSpawn = now]
       ELSE /\ Len(twitch.awaiting) < MaxAwaiting
            /\ twitch' = [twitch EXCEPT !.awaiting =
                                           Append(@, [emoteId |-> emoteId, now |-> now])]
            /\ UNCHANGED Engine
    /\ ignored' = FALSE
    /\ UNCHANGED <<editor, now, sockets, pc, pending, snapPc, winRun, prevLevel>>

\* the reply to the i-th axios.head in flight: the rest of spawnEmoteInGame, then of
\* onMessage, which stores the time read when its message arrived
axiosHead(i, ok) ==
    /\ EventLoopIdle
    /\ i \in DOMAIN twitch.awaiting
    /\ Len(emotes) < MaxChatEmotes
    /\ LET req == twitch.awaiting[i]
           rest == Answered(twitch.awaiting, i)
       IN  IF ok
           THEN /\ \E r \in {0, 1} : SetG(spawnEmote(G, now, r, 0))
                /\ twitch' = [CallSpawnEmote(twitch, now) EXCEPT
                                 !.emoteCache = @ \cup {req.emoteId},
                                 !.lastEmoteSpawn = req.now, !.awaiting = rest]
           ELSE /\ twitch' = [twitch EXCEPT !.lastEmoteSpawn = req.now, !.awaiting = rest]
                /\ UNCHANGED Engine
    /\ ignored' = FALSE
    /\ UNCHANGED <<editor, now, sockets, pc, pending, snapPc, winRun, prevLevel>>

InitChat == Boot("L")

NextChat ==
    \/ \E emoteId \in EmoteNames : onMessage(emoteId)
    \/ \E i \in 1..MaxAwaiting, ok \in BOOLEAN : axiosHead(i, ok)
    \/ ChatClockAdvance

SpecChat == InitChat /\ [][NextChat]_vars

----------------------------------------------------------------------------
(* Emote spawns: no level at start; one client loads L and P (spawnpoint),  *)
(* E (spawnpoint, then emotespawn) and N (neither) and spawns test emotes,  *)
(* which the physics step may drop off the world                           *)

NextEmote ==
    \/ Connect(SockId(1))
    \/ \E levelName \in {"L", "E", "N", "P"} : LoadLevelRequest(SockId(1), levelName)
    \/ \E r \in {0, 1}, dx \in RandomOffsets : SpawnTestEmote(SockId(1), r, dx)
    \/ \E mv \in Moves(G, {"emote"}, PointsFall) : Tick(mv)

SpecEmote == Init /\ [][NextEmote]_vars

----------------------------------------------------------------------------
(* Beams: level B is the default level; two clients log in above its       *)
(* spawnpoint, the first switches its beam, pulls and spawns emotes while   *)
(* the loop ticks; the physics step leaves every body where it is          *)

InitBeam == Boot("B")

NextBeam ==
    \/ \E id \in SocketIds : Connect(id)
    \/ \E id \in SocketIds : Login(id)
    \/ \E active \in BOOLEAN : BeamToggle(SockId(1), active)
    \/ BeamInteraction(SockId(1))
    \/ \E dx \in RandomOffsets : SpawnTestEmote(SockId(1), 0, dx)
    \/ \E mv \in Moves(G, {}, PointsRespawn) : Tick(mv)

SpecBeam == InitBeam /\ [][NextBeam]_vars

----------------------------------------------------------------------------
(* Goals: level G is the default level; one client loads G, W or L, which  *)
(* has no goal; the physics step carries either marble to either goal      *)

\* at either goal, and at distance 50 from the first one
PointsGoal == PointsWin \cup {Pt(100 + CaptureRadius, 900)}

InitGoal == Boot("G")

NextGoal ==
    \/ Connect(SockId(1))
    \/ \E levelName \in {"L", "G", "W"} : LoadLevelRequest(SockId(1), levelName)
    \/ \E mv \in Moves(G, {"marble"}, PointsGoal) : Tick(mv)

SpecGoal == InitGoal /\ [][NextGoal]_vars

----------------------------------------------------------------------------
(* The engine of server/gameLogic.js under level loads, test emotes and ticks *)

\* no default level file at start; one client loads levels and spawns test emotes
NextGameLogic ==
    \/ Connect(SockId(1))
    \/ \E levelName \in {"L", "W"} : GameLogicLoadLevelRequest(SockId(1), levelName)
    \/ \E dx \in RandomOffsets : GameLogicSpawnTestEmote(SockId(1), 0, dx)
    \/ \E mv \in Moves(G, {"marble", "emote"}, PointsFall) : GameLogicTick(mv)

SpecGameLogic == Init /\ [][NextGameLogic]_vars

----------------------------------------------------------------------------
(* The event loop in steps: the tick callback and the load handler at the  *)
(* points between their calls, where a preemptive scheduler could cut in.  *)
(* pc is "emit" after the XP award, "build" and "reqbuild" between the two *)
(* halves of loadLevel, "tail" before handleTeleporters.  Level W is the   *)
(* default level; the client loads L, and only a win loads M.              *)

Running(at) == pc = at /\ ~ crashed

\* Matter.Engine.update and updateGameState up to the XP award
TickUpdate(mv) ==
    /\ EventLoopIdle
    /\ \A k \in DOMAIN players : players[k].level <= MaxLevel
    /\ SetG(updateGameStateHead(EngineUpdate(G, mv)))
    /\ pc' = "emit"
    /\ UNCHANGED <<editor, twitch, now, sockets, pending, snapPc, winRun, prevLevel, ignored>>

\* this.emit('loadNextLevel', ...): the listener clears the level when the file exists
TickEmit ==
    /\ Running("emit")
    /\ LET ev == EmittedNextLevel(G)
       IN  IF ev # "" /\ existsSync(ev)
           THEN /\ SetG(loadLevelClear(MarkStale(G), LevelFiles[ev]))
                /\ pending' = ev
                /\ prevLevel' = currentLevel.name
                /\ pc' = "build"
           ELSE /\ pc' = "tail"
                /\ UNCHANGED <<Engine, pending, prevLevel>>
    /\ UNCHANGED <<editor, twitch, now, sockets, snapPc, winRun, ignored>>

\* the listener's loadLevel, second half
TickBuild ==
    /\ Running("build")
    /\ SetG(loadLevelBuild(G, LevelFiles[pending], now))
    /\ pending' = ""
    /\ pc' = "tail"
    /\ UNCHANGED <<editor, twitch, now, sockets, snapPc, winRun, prevLevel, ignored>>

\* handleTeleporters and the bounds enforcement: the callback returns
TickTail ==
    /\ Running("tail")
    /\ SetG(updateGameStateTail(G, now))
    /\ pc' = "idle"
    /\ UNCHANGED <<editor, twitch, now, sockets, pending, snapPc, winRun, prevLevel, ignored>>

\* socket.on('loadLevel', ...) up to this.currentLevel = levelData
LoadClear(id, levelName) ==
    /\ EventLoopIdle
    /\ sockets[id] = "open"
    /\ IF existsSync(levelName)
       THEN /\ SetG(loadLevelClear(MarkStale(G), LevelFiles[levelName]))
            /\ pending' = levelName
            /\ prevLevel' = currentLevel.name
            /\ pc' = "reqbuild"
       ELSE UNCHANGED <<Engine, pending, prevLevel, pc>>
    /\ ignored' = FALSE
    /\ UNCHANGED <<editor, twitch, now, sockets, snapPc, winRun>>

\* the rest of the load handler: the bodies, marbles and constraints, then levelLoaded
LoadBuild ==
    /\ Running("reqbuild")
    /\ SetG(loadLevelBuild(G, LevelFiles[pending], now))
    /\ pending' = ""
    /\ pc' = "idle"
    /\ UNCHANGED <<editor, twitch, now, sockets, snapPc, winRun, prevLevel, ignored>>

NextLoop ==
    \/ Connect(SockId(1))
    \/ Login(SockId(1))
    \/ \E levelName \in {"L", "level2"} : LoadClear(SockId(1), levelName)
    \/ LoadBuild
    \/ \E mv \in Moves(G, {"marble"}, PointsWin) : TickUpdate(mv)
    \/ TickEmit
    \/ TickBuild
    \/ TickTail
    \/ Broadcast

SpecLoop == InitWin /\ [][NextLoop]_vars

----------------------------------------------------------------------------
(* Properties *)

\* C1: an entity teleported at time T is not teleported again before T + 5000 ms,
\* whatever other entities teleport in between (the pruning of entries older than
\* 2000 ms does not shorten the cooldown).  Stated for SpecTeleport.
C1_CooldownHonoured == \A h \in DOMAIN bodies : ~ bodies[h].tpEarly

\* C2: the world holds exactly one player body for every id of the player map and
\* none for an id that is not in it, also after a socket logs in twice.
C2_OneBodyPerPlayer ==
    \A id \in SocketIds :
        Cardinality({h \in world : bodies[h].kind = "player" /\ bodies[h].owner = id})
            = (IF id \in PlayerIds(G) THEN 1 ELSE 0)

\* C3: one marble arrival at a goal awards the connected players their 100 XP once:
\* the award is not repeated on later ticks for the same arrival.  Stated for SpecWin.
C3_AwardOncePerArrival == winRun.awards <= 1

\* C4: one win emits 'loadNextLevel' once, not once per tick while the marble stays
\* at the goal and the next level cannot be loaded.  Stated for SpecWin.
C4_EmitOncePerWin == winRun.emits <= 1

\* C5: removePlayer is total and idempotent: for any id it raises nothing, a second
\* call changes nothing, and for an id that is not in the map the first call
\* changes nothing either.
C5_RemovePlayerIdempotent ==
    \A id \in SocketIds \cup {NoId} :
        LET once == removePlayer(G, id)
        IN  /\ ~ once.threw
            /\ id \notin PlayerIds(once)
            /\ removePlayer(once, id) = once
            /\ (id \notin PlayerIds(G) => once = G)

\* a socket that never logged in has disconnected while a player is in the game
C5_Witness ==
    \E a \in SocketIds, b \in SocketIds : sockets[a] = "closed" /\ b \in PlayerIds(G)

\* C6: updatePlayerInput, activateBeam and handleBeamInteraction for an id that is not
\* in the player map raise nothing and leave the engine state as it was.
C6_UnknownIdIgnored ==
    \A id \in (SocketIds \cup {NoId}) \ PlayerIds(G) :
        /\ \A input \in InputChoices \cup {NoInput} : updatePlayerInput(G, id, input) = G
        /\ \A active \in BOOLEAN : activateBeam(G, id, active) = G
        /\ handleBeamInteraction(G, id) = G

\* a message of a socket without a player was handled while a player is in the game
C6_Witness == ignored /\ Len(players) > 0

\* C7: a snapshot (the broadcast's or the login's getGameState) is only built between
\* callbacks, never inside a tick or between the two halves of a level load, and
\* between callbacks the level is whole: every object and connection of the current
\* level has its entry.  Stated for SpecLoop.
C7_SnapshotsAtBoundaries ==
    /\ snapPc \in {"none", "idle"}
    /\ pc = "idle" =>
          /\ [i \in DOMAIN levelObjects |-> levelObjects[i].id]
                = [i \in DOMAIN currentLevel.objects |-> currentLevel.objects[i].id]
          /\ [i \in DOMAIN constraints |-> constraints[i].id]
                = [i \in DOMAIN currentLevel.connections |-> currentLevel.connections[i].id]

\* a login was answered with a snapshot after the listener had loaded level M from
\* inside a tick: the player stands where M's playerspawn is
C7_Witness ==
    /\ snapPc = "idle"
    /\ prevLevel # ""
    /\ Len(players) > 0
    /\ players[1].x = LevelM.objects[1].x

C9_LoadKeepsPlayers ==
    \A n \in DOMAIN LevelFiles :
        LET g == loadLevel(G, LevelFiles[n], now)
        IN  /\ g.players = players
            /\ \A k \in DOMAIN players :
                  /\ players[k].body \in g.world
                  /\ g.bodies[players[k].body] = bodies[players[k].body]

\* a player who earned XP in level W is still in the game, with the XP, after the
\* load of M that a win triggered and the load of L that the client requested
C9_Witness ==
    /\ Len(players) > 0
    /\ players[1].xp > 0
    /\ players[1].body \in world
    /\ currentLevel.name = "L"
    /\ prevLevel = "M"
    /\ pc = "idle"

C11_DanglingSkipped ==
    LET objs == currentLevel.objects
        conns == currentLevel.connections
        ids == {objs[i].id : i \in DOMAIN objs}
        sound == SelectSeq(conns, LAMBDA c : /\ c.bodyA \in ids
                                             /\ c.bodyB \in ids
                                             /\ c.type \in {"revolute", "rope", "spring", "distance"})
    IN  /\ ~ crashed
        /\ [i \in DOMAIN levelObjects |-> levelObjects[i].id] = [i \in DOMAIN objs |-> objs[i].id]
        /\ [i \in DOMAIN constraints |-> constraints[i].id] = [i \in DOMAIN sound |-> sound[i].id]
        /\ teleportCooldowns = << >>
        /\ \A h \in world : bodies[h].tpLast = 0

\* level D is loaded with a dangling connection skipped, and after a tick the marble
\* lies on the teleporter whose target is missing
C11_Witness ==
    /\ currentLevel.name = "D"
    /\ Len(constraints) < Len(currentLevel.connections)
    /\ \E i \in DOMAIN marbles :
          /\ bodies[marbles[i].body].pos = Pt(LevelD.objects[3].x, LevelD.objects[3].y)
          /\ bodies[marbles[i].body].vel = Moving

\* C12: no level stops the tick loop: whatever level data loadLevel is handed, by a
\* client or by the listener of a win inside a tick, no exception leaves the
\* callback and ends the process.  Stated for SpecMalformed.
C12_TickLoopSurvives == ~ crashed

\* C13: bounds enforcement leaves a marble at or above the lower bound (y <= 1200)
\* where it is, and puts a marble past the bound 50 above the first spawnpoint with
\* zero velocity; the marble stays in the world and in the marbles collection.
\* Stated for SpecFall, for every marble of every reachable state placed around the bound.
C13_MarbleRespawn ==
    \A i \in DOMAIN marbles, y \in {MinY - 1, MinY, MinY + 1} :
        LET h == marbles[i].body
            g == SetVelocity(SetPosition(G, h, Pt(bodies[h].pos.x, y)), h, Moving)
            e == EnforceBounds(g)
            sps == {k \in DOMAIN levelObjects : "spawnpoint" \in levelObjects[k].properties}
            sp == levelObjects[Min(sps)]
        IN  /\ e.marbles = marbles
            /\ h \in e.world
            /\ IF y > MinY
               THEN /\ sps # {}
                    /\ e.bodies[h].pos = Pt(sp.x, sp.y - SpawnLift)
                    /\ e.bodies[h].vel = Zero
               ELSE e.bodies[h] = g.bodies[h]

\* a tick has put the fallen marble back above the spawnpoint at rest, while an emote
\* that the same tick left alone is moving
C13_Witness ==
    /\ Len(marbles) > 0
    /\ bodies[marbles[1].body].pos = Pt(LevelL.objects[1].x, LevelL.objects[1].y - SpawnLift)
    /\ bodies[marbles[1].body].vel = Zero
    /\ Len(emotes) > 0
    /\ bodies[emotes[1].body].vel = Moving

\* C14: a tick removes an emote that is past the lower bound from the world and from
\* the emotes collection, keeps every emote at or above the bound, and adds no emote:
\* what was removed does not come back.  Stated for SpecFall, for every physics step
\* from every reachable state.
C14_EmoteRemoved ==
    \A mv \in Moves(G, {"emote"}, PointsFall) :
        LET t == PhysicsLoopTick(G, mv, now)
            Y(h) == IF h \in DOMAIN mv THEN mv[h].y ELSE bodies[h].pos.y
        IN  /\ \A k \in DOMAIN t.emotes : \E i \in DOMAIN emotes : t.emotes[k] = emotes[i]
            /\ Len(t.emotes) <= Len(emotes)
            /\ \A i \in DOMAIN emotes :
                  LET h == emotes[i].body
                  IN  IF Y(h) > MinY
                      THEN /\ h \notin t.world
                           /\ \A k \in DOMAIN t.emotes : t.emotes[k].body # h
                      ELSE /\ h \in t.world
                           /\ \E k \in DOMAIN t.emotes : t.emotes[k] = emotes[i]
                           /\ t.bodies[h].pos = (IF h \in DOMAIN mv THEN mv[h] ELSE bodies[h].pos)

\* an emote spawned before the login has fallen and is gone: no emote is left, and
\* the handle below the player's body is free again
C14_Witness ==
    /\ Len(emotes) = 0
    /\ Len(players) > 0
    /\ \E k \in 1..(players[1].body - 1) : k \notin world

\* C15: in a tick, a movable entity (by id) that is within no 5000 ms cooldown of its
\* last teleport and whose bounds overlap a teleporter A whose teleporterTarget is a
\* teleporter B of the level is, after handleTeleporters, 50 above B with zero velocity
\* and with its cooldown started at this tick's time; an entity within the cooldown
\* of its last teleport, or overlapping no teleporter, is where the physics step left it.
\* Stated for SpecTeleport, for every physics step from every reachable state.
C15_TeleportEffect ==
    \A mv \in Moves(G, {"marble", "player"}, PointsTeleport) :
        LET g == SyncPositions(EngineUpdate(G, mv))
            t == handleTeleporters(g, now)
            movable == Entities(g.marbles) \o Entities(g.emotes)
                         \o Entities(SelectSeq(g.levelObjects, LAMBDA o : ~ o.isStatic))
                         \o Entities(g.players)
            IsTeleporter(o) == "teleporter" \in o.properties
            pairs == {ab \in (DOMAIN g.levelObjects) \X (DOMAIN g.levelObjects) :
                         /\ IsTeleporter(g.levelObjects[ab[1]])
                         /\ IsTeleporter(g.levelObjects[ab[2]])
                         /\ g.levelObjects[ab[1]].teleporterTarget = g.levelObjects[ab[2]].id}
            Over(e) == {ab \in pairs :
                         /\ g.levelObjects[ab[1]].id # e.id
                         /\ BoundsOverlap(Bounds(g.bodies[e.body]),
                                          Bounds(g.bodies[g.levelObjects[ab[1]].body]))}
            Cooling(e) == \E h \in DOMAIN g.bodies :
                              /\ g.bodies[h].owner = e.id
                              /\ g.bodies[h].tpLast # 0
                              /\ now - g.bodies[h].tpLast < CooldownMs
        IN  \A i \in DOMAIN movable :
                LET e == movable[i]
                IN  IF Cooling(e) \/ Over(e) = {}
                    THEN t.bodies[e.body].pos = g.bodies[e.body].pos
                    ELSE \E ab \in Over(e) :
                           LET B == g.bodies[g.levelObjects[ab[2]].body].pos
                           IN  /\ t.bodies[e.body].pos = Pt(B.x, B.y - SpawnLift)
                               /\ t.bodies[e.body].vel = Zero
                               /\ e.id \in DOMAIN t.teleportCooldowns
                               /\ t.teleportCooldowns[e.id] = now

\* C16: the force a tick applies to a player's body is the force of the player's
\* current input, which is the last input message received: of two messages between
\* ticks only the second counts, the tick leaves the input in place, and the next tick
\* applies the same force again.  Stated for SpecInput, for every pair of messages and
\* every two physics steps from every reachable state.
C16_LastInputWins ==
    \A k \in DOMAIN players :
        LET id == players[k].id
            Held == IF players[k].input.set THEN InputForce(players[k].input) ELSE Zero
            own == {mv \in Moves(G, {"player"}, PointsSession) :
                       DOMAIN mv \subseteq {players[k].body}}
        IN  /\ \A mv \in Moves(G, {"player"}, PointsSession) :
                  LET t0 == PhysicsLoopTick(G, mv, now)
                  IN  t0.bodies[t0.players[k].body].force = Held
            /\ \A in1 \in InputsHeld, in2 \in InputsHeld, mv \in own :
                  LET g == updatePlayerInput(updatePlayerInput(G, id, in1), id, in2)
                      t1 == PhysicsLoopTick(g, mv, now)
                      t2 == PhysicsLoopTick(t1, << >>, now)
                  IN  /\ t1.players[k].input = in2
                      /\ t1.bodies[t1.players[k].body].force = InputForce(in2)
                      /\ t2.players[k].input = in2
                      /\ t2.bodies[t2.players[k].body].force = InputForce(in2)

\* a tick has moved the player and applied the force of the keys now held
C16_Witness ==
    \E k \in DOMAIN players :
        /\ players[k].input = Input(TRUE, FALSE, TRUE, FALSE)
        /\ bodies[players[k].body].vel = Moving
        /\ bodies[players[k].body].force = Pt(0 - ForceAmount, 0 - ForceAmount)

\* C17: in a tick that finds a marble at a goal, each player's xp grows by 100 and a
\* player whose xp then is at least level * 1000 gains exactly one level and restarts
\* at xp 0, while a player below the threshold keeps the level; in a tick without a win
\* xp and level stay; no tick raises a level by more than one.  Stated for SpecWin, for
\* every physics step from every reachable state.
C17_LevelUpRule ==
    \A mv \in Moves(G, {"marble"}, PointsWin) :
        LET g == EngineUpdate(G, mv)
            t == PhysicsLoopTick(G, mv, now)
            win == \E i \in DOMAIN g.marbles, j \in DOMAIN g.levelObjects :
                       /\ "goal" \in g.levelObjects[j].properties
                       /\ InRange(g.levelObjects[j], g.bodies[g.marbles[i].body])
        IN  \A k \in DOMAIN players :
                LET was == players[k]
                    is == t.players[k]
                IN  /\ is.level - was.level \in {0, 1}
                    /\ IF ~ win THEN is.level = was.level /\ is.xp = was.xp
                       ELSE IF was.xp + XpAward >= was.level * XpPerLevel
                       THEN is.level = was.level + 1 /\ is.xp = 0
                       ELSE is.level = was.level /\ is.xp = was.xp + XpAward

\* a player has crossed the first threshold and restarted at xp 0 on the next level
C17_Witness == \E k \in DOMAIN players : players[k].level = 2 /\ players[k].xp = 0

\* C18 as stated: no tick, level load or input message leaves a player with an xp or
\* a level lower than before.  Stated for SpecWin, for every physics step, every load
\* of a level file and every input message from every reachable state.
C18_XpAndLevelMonotone ==
    LET Kept(was, is) == is.level >= was.level /\ is.xp >= was.xp
        After(s) == \A k \in DOMAIN players : Kept(players[k], s.players[k])
    IN  /\ \A mv \in Moves(G, {"marble"}, PointsWin) : After(PhysicsLoopTick(G, mv, now))
        /\ \A n \in {"L", "M", "W"} : After(loadLevel(G, LevelFiles[n], now))
        /\ \A id \in SocketIds, input \in InputChoices : After(updatePlayerInput(G, id, input))

\* C18 amended: no tick, level load or input message lowers a player's level, and none
\* lowers a player's xp except the tick that raises the player's level by one, which
\* restarts xp at 0.  Stated for SpecWin, for every physics step, every load of a level
\* file and every input message from every reachable state.
C18_LevelMonotoneXpPerLevel ==
    LET Kept(was, is) ==
            \/ is.level = was.level /\ is.xp >= was.xp
            \/ is.level = was.level + 1 /\ is.xp = 0
        After(s) == \A k \in DOMAIN players : Kept(players[k], s.players[k])
    IN  /\ \A mv \in Moves(G, {"marble"}, PointsWin) : After(PhysicsLoopTick(G, mv, now))
        /\ \A n \in {"L", "M", "W"} : After(loadLevel(G, LevelFiles[n], now))
        /\ \A id \in SocketIds, input \in InputChoices : After(updatePlayerInput(G, id, input))

\* the win that took a player to the next level with xp 0 also loaded level M
C18_Witness ==
    /\ currentLevel.name = "M"
    /\ \E k \in DOMAIN players : players[k].level = 2 /\ players[k].xp = 0

\* C19: in every state the marbles collection holds one marble per spawnpoint-tagged
\* object of levelObjects (the spawnpoint objects of the level that got a body), each
\* marble with a body of its own in the world; ticks remove none and add none, so
\* wherever there is a marble there is a spawnpoint to return to.
\* Stated for SpecMarbles.
C19_MarblePerSpawnpoint ==
    LET sps == {k \in DOMAIN levelObjects : "spawnpoint" \in levelObjects[k].properties}
        made == {i \in DOMAIN currentLevel.objects :
                    /\ "spawnpoint" \in currentLevel.objects[i].properties
                    /\ currentLevel.objects[i].shape \in {"rectangle", "circle"}}
    IN  /\ Len(marbles) = Cardinality(sps)
        /\ Len(marbles) = Cardinality(made)
        /\ \A i \in DOMAIN marbles :
              /\ marbles[i].body \in world
              /\ bodies[marbles[i].body].kind = "marble"
              /\ \A j \in DOMAIN marbles : marbles[j].body = marbles[i].body => j = i
        /\ \A mv \in Moves(G, {"marble", "object"}, PointsFall) :
              PhysicsLoopTick(G, mv, now).marbles = marbles

\* level S was loaded again by a client and has its two marbles; a tick has since
\* returned the first, fallen, to the spawnpoint at rest while the second is moving
C19_Witness ==
    /\ currentLevel.name = "S"
    /\ prevLevel = "L"
    /\ Len(marbles) = 2
    /\ bodies[marbles[1].body].vel = Zero
    /\ bodies[marbles[2].body].vel = Moving

\* C20: addPlayer puts the new body at the first playerspawn-tagged level object, or
\* without one at the first spawnpoint-tagged object, or without either (or with no
\* level) at (960, 540); the x, y of the player record and of the returned player
\* data are that position.  Stated for SpecJoin, for every socket id joining from
\* every reachable state.
C20_SpawnPriority ==
    \A id \in SocketIds :
        LET ps == {k \in DOMAIN levelObjects : "playerspawn" \in levelObjects[k].properties}
            ss == {k \in DOMAIN levelObjects : "spawnpoint" \in levelObjects[k].properties}
            at == IF ps # {} THEN Pt(levelObjects[Min(ps)].x, levelObjects[Min(ps)].y)
                  ELSE IF ss # {} THEN Pt(levelObjects[Min(ss)].x, levelObjects[Min(ss)].y)
                  ELSE Pt(960, 540)
            g == addPlayer(G, id)
            k == PlayerAt(g, id)
            r == addPlayerResult(G, id)
        IN  /\ k # 0
            /\ g.players[k].body \in g.world \ world
            /\ g.bodies[g.players[k].body].pos = at
            /\ Pt(g.players[k].x, g.players[k].y) = at
            /\ Pt(r.x, r.y) = at

\* level P is loaded and a player who joined stands on its first playerspawn object,
\* which comes after the spawnpoint; another, who joined before the load, is where
\* the centre fallback put them
C20_Witness ==
    /\ currentLevel.name = "P"
    /\ \E k \in DOMAIN players :
          /\ Pt(players[k].x, players[k].y) = Pt(LevelP.objects[2].x, LevelP.objects[2].y)
          /\ bodies[players[k].body].pos = Pt(LevelP.objects[2].x, LevelP.objects[2].y)
    /\ \E k \in DOMAIN players :
          bodies[players[k].body].pos = Pt(DefaultSpawnX, DefaultSpawnY)

\* C21 as stated: a tick that finds a player past the lower bound leaves the player at
\* rest where a joining player would be put (first playerspawn, else first spawnpoint,
\* else the join fallback), and leaves a movable level object that is past the bound
\* at rest above the first spawnpoint; bodies at or above the bound stay where the
\* physics step put them.  Stated for SpecRespawn, for every physics step from every
\* reachable state.
C21_RespawnLikeJoin ==
    \A mv \in Moves(G, {"player", "object"}, PointsRespawn) :
        LET t == PhysicsLoopTick(G, mv, now)
            At(h) == IF h \in DOMAIN mv THEN mv[h] ELSE bodies[h].pos
            ss == {k \in DOMAIN levelObjects : "spawnpoint" \in levelObjects[k].properties}
        IN  /\ \A k \in DOMAIN players :
                  LET h == players[k].body
                  IN  IF At(h).y > MinY
                      THEN t.bodies[h].pos = SpawnPosition(t) /\ t.bodies[h].vel = Zero
                      ELSE t.bodies[h].pos = At(h)
            /\ \A j \in DOMAIN levelObjects :
                  LET h == levelObjects[j].body
                  IN  IF ~ levelObjects[j].isStatic /\ At(h).y > MinY
                      THEN /\ ss # {}
                           /\ t.bodies[h].pos = Pt(levelObjects[Min(ss)].x,
                                                    levelObjects[Min(ss)].y - SpawnLift)
                           /\ t.bodies[h].vel = Zero
                      ELSE t.bodies[h].pos = At(h)

\* C21 amended: a tick that finds a player past the lower bound leaves the player at
\* rest at the first playerspawn object, else at the first spawnpoint object, else at
\* the fixed location (400, 200); it leaves a movable level object that is past the
\* bound at rest 50 above the first spawnpoint when the level has one, and where it is
\* when the level has none; bodies at or above the bound stay where the physics step
\* put them.  Stated for SpecRespawn, for every physics step from every reachable state.
C21_RespawnBySpawnPriority ==
    \A mv \in Moves(G, {"player", "object"}, PointsRespawn) :
        LET t == PhysicsLoopTick(G, mv, now)
            At(h) == IF h \in DOMAIN mv THEN mv[h] ELSE bodies[h].pos
            ps == {k \in DOMAIN levelObjects : "playerspawn" \in levelObjects[k].properties}
            ss == {k \in DOMAIN levelObjects : "spawnpoint" \in levelObjects[k].properties}
            best == IF ps # {} THEN Pt(levelObjects[Min(ps)].x, levelObjects[Min(ps)].y)
                    ELSE IF ss # {} THEN Pt(levelObjects[Min(ss)].x, levelObjects[Min(ss)].y)
                    ELSE Pt(400, 200)
        IN  /\ \A k \in DOMAIN players :
                  LET h == players[k].body
                  IN  IF At(h).y > MinY
                      THEN t.bodies[h].pos = best /\ t.bodies[h].vel = Zero
                      ELSE t.bodies[h].pos = At(h)
            /\ \A j \in DOMAIN levelObjects :
                  LET h == levelObjects[j].body
                  IN  IF ~ levelObjects[j].isStatic /\ At(h).y > MinY /\ ss # {}
                      THEN /\ t.bodies[h].pos = Pt(levelObjects[Min(ss)].x,
                                                    levelObjects[Min(ss)].y - SpawnLift)
                           /\ t.bodies[h].vel = Zero
                      ELSE t.bodies[h].pos = At(h)

\* in level N, which has no spawn tag, a fallen player is at rest at (400, 200) and
\* the fallen ball is still below the bound
C21_Witness ==
    /\ currentLevel.name = "N"
    /\ \E k \in DOMAIN players :
          /\ bodies[players[k].body].pos = Pt(SafeX, SafeY)
          /\ bodies[players[k].body].vel = Zero
    /\ \E j \in DOMAIN levelObjects :
          ~ levelObjects[j].isStatic /\ bodies[levelObjects[j].body].pos.y > MinY

\* C22: validateAndFixDuplicateIds leaves a level whose object ids are pairwise
\* distinct; an object that is the first to carry its id keeps it, every object keeps
\* its shape and properties, and the number of objects is unchanged.  Stated for
\* SpecEditor, for the text of the JSON panel of every reachable state, and for the
\* level an apply has produced from it.
C22_IdsDistinctAfterRepair ==
    LET in == editor.textarea.objects
        out == validateAndFixDuplicateIds(editor.textarea).objects
        first == {i \in DOMAIN in : \A j \in DOMAIN in : in[j].id = in[i].id => i <= j}
    IN  /\ Len(out) = Len(in)
        /\ \A i \in DOMAIN out, j \in DOMAIN out : out[i].id = out[j].id => i = j
        /\ \A i \in first : out[i].id = in[i].id
        /\ \A i \in DOMAIN in : out[i].shape = in[i].shape /\ out[i].properties = in[i].properties
        /\ editor.level.name = editor.textarea.name => editor.level.objects = out

\* an applied level in which the repair had to pass two names in use: the third
\* object, a second "rectangle_1", is now "rectangle_3"
C22_Witness ==
    /\ Len(editor.textarea.objects) = 3
    /\ editor.textarea.objects[3].id = EdId("rectangle", 1)
    /\ editor.level.name = editor.textarea.name
    /\ editor.level.objects[3].id = EdId("rectangle", 3)

\* C23: after validateAndFixDuplicateIds, a connection end that named the old id of a
\* renamed object names the new id of an object renamed from that id.  Stated for
\* SpecEditor, for the text of the JSON panel of every reachable state.
C23_ConnectionsFollowRename ==
    LET in == editor.textarea
        out == validateAndFixDuplicateIds(in)
        renamed == {i \in DOMAIN in.objects : out.objects[i].id # in.objects[i].id}
        NewIds(old) == {out.objects[i].id : i \in {r \in renamed : in.objects[r].id = old}}
    IN  \A c \in DOMAIN in.connections :
            /\ NewIds(in.connections[c].bodyA) # {}
                  => out.connections[c].bodyA \in NewIds(in.connections[c].bodyA)
            /\ NewIds(in.connections[c].bodyB) # {}
                  => out.connections[c].bodyB \in NewIds(in.connections[c].bodyB)

\* C24: no two live marbles share an id and no two live emotes share an id, marbles
\* spawned for several spawnpoints by one loadLevel call included.
\* Stated for SpecMarbles.
C24_FreeBodyIdsUnique ==
    /\ \A i \in DOMAIN marbles, j \in DOMAIN marbles : marbles[i].id = marbles[j].id => i = j
    /\ \A i \in DOMAIN emotes, j \in DOMAIN emotes : emotes[i].id = emotes[j].id => i = j

\* C25: at every tick boundary each player's beamTarget is null or the id of a
\* live entity inside that player's beam cone that is nearest to the player
C25_BeamTargetNearestInCone ==
    \A mv \in Moves(G, {"player"}, PointsSession) :
        LET t == PhysicsLoopTick(G, mv, now)
        IN  ~ t.threw =>
              \A k \in DOMAIN t.players :
                LET player == t.players[k]
                    hit == ObjectsInBeam(t, player)
                    Far(c) == (t.bodies[c.body].pos.x - player.x) * (t.bodies[c.body].pos.x - player.x)
                              + (t.bodies[c.body].pos.y - player.y) * (t.bodies[c.body].pos.y - player.y)
                IN  player.beamTarget # NoId =>
                      \E i \in DOMAIN hit :
                          /\ hit[i].id = player.beamTarget
                          /\ \A j \in DOMAIN hit : Far(hit[i]) <= Far(hit[j])

\* C26: after a player is created, player.x and player.y are written only by
\* the sync step of the tick, which copies the body's stepped position; no
\* other step or operation (bounds respawn, teleport, loadLevel, input, beam)
\* assigns them
C26_CacheWrittenBySyncOnly ==
    /\ \A mv \in Moves(G, {"player", "object"}, PointsRespawn) :
         LET s == EngineUpdate(G, mv)
             t == PhysicsLoopTick(G, mv, now)
         IN  ~ t.threw =>
               \A k \in DOMAIN t.players : \A j \in DOMAIN G.players :
                   G.players[j].body = t.players[k].body =>
                       /\ t.players[k].x = s.bodies[G.players[j].body].pos.x
                       /\ t.players[k].y = s.bodies[G.players[j].body].pos.y
    /\ \A t \in {updatePlayerInput(G, id, input) : id \in SocketIds, input \in InputsHeld}
                  \cup {activateBeam(G, id, active) : id \in SocketIds, active \in BOOLEAN}
                  \cup {handleBeamInteraction(G, id) : id \in SocketIds}
                  \cup {loadLevel(G, LevelFiles[f], now) : f \in DOMAIN LevelFiles} :
             ~ t.threw =>
               \A k \in DOMAIN t.players : \A j \in DOMAIN G.players :
                   G.players[j].body = t.players[k].body =>
                       t.players[k].x = G.players[j].x /\ t.players[k].y = G.players[j].y

\* C26 (amended): player.x and player.y are written by the sync step and by the
\* bounds respawn only: after a tick they hold the body's stepped position,
\* or the respawn position when the bounds step found the body fallen; input,
\* beam, teleport and loadLevel leave them alone
C26_CacheWrittenBySyncAndRespawn ==
    /\ \A mv \in Moves(G, {"player", "object"}, PointsRespawn) :
         LET s == EngineUpdate(G, mv)
             g1 == updateGameStateHead(s)
             g2 == onLoadNextLevel(g1, EmittedNextLevel(g1), now)
             g3 == handleTeleporters(g2, now)
             t == PhysicsLoopTick(G, mv, now)
         IN  ~ t.threw =>
               \A k \in DOMAIN t.players : \A j \in DOMAIN G.players :
                   G.players[j].body = t.players[k].body =>
                       LET h == G.players[j].body
                           at == IF Fallen(g3, h) THEN RespawnPosition(g3) ELSE s.bodies[h].pos
                       IN  t.players[k].x = at.x /\ t.players[k].y = at.y
    /\ \A t \in {updatePlayerInput(G, id, input) : id \in SocketIds, input \in InputsHeld}
                  \cup {activateBeam(G, id, active) : id \in SocketIds, active \in BOOLEAN}
                  \cup {handleBeamInteraction(G, id) : id \in SocketIds}
                  \cup {loadLevel(G, LevelFiles[f], now) : f \in DOMAIN LevelFiles} :
             ~ t.threw =>
               \A k \in DOMAIN t.players : \A j \in DOMAIN G.players :
                   G.players[j].body = t.players[k].body =>
                       t.players[k].x = G.players[j].x /\ t.players[k].y = G.players[j].y

\* a tick whose step drops a player below the bound: the cached fields of that
\* player end at the respawn position, not at the stepped position
C26_Witness ==
    \E mv \in Moves(G, {"player"}, PointsRespawn) :
        LET s == EngineUpdate(G, mv)
            t == PhysicsLoopTick(G, mv, now)
        IN  /\ ~ t.threw
            /\ \E k \in DOMAIN t.players : \E j \in DOMAIN G.players :
                  /\ G.players[j].body = t.players[k].body
                  /\ Fallen(s, G.players[j].body)
                  /\ Pt(t.players[k].x, t.players[k].y) = RespawnPosition(t)
                  /\ Pt(t.players[k].x, t.players[k].y) # s.bodies[G.players[j].body].pos

\* C27: within a tick the input forces are applied before the physics step and
\* the beam cones are built after it: when the sync step begins, the step of
\* this tick has consumed the force of every input received before the tick,
\* and the bodies a beam has pulled are those inside the cone below the
\* player's stepped position
C27_InputThenStepThenBeam ==
    \A mv \in Moves(G, {"player"}, PointsSession) :
        LET s == EngineUpdate(G, mv)
            b == updateBeamEffects(applyPlayerInputs(s))
        IN  \A k \in DOMAIN s.players :
              LET player == s.players[k]
                  at == s.bodies[player.body].pos
                  cone == BeamPolygon(at.x, at.y)
                  candidates == BeamCandidates(s, player)
              IN  /\ b.bodies[player.body].force = Zero
                  /\ player.beamActive =>
                       \A i \in DOMAIN candidates :
                           player.id \in b.bodies[candidates[i].body].beamBy
                             <=> InBeam(cone, s.bodies[candidates[i].body])

\* C28: emote spawns triggered by chat are rate limited: any two spawnEmote
\* calls caused by chat messages are at least 2 seconds apart, whatever the
\* arrival pattern, verifications in flight included
C28_ChatSpawnsTwoSecondsApart == ~ twitch.tooSoon

\* C29: saveLevel sends the level to the server only if the level name is
\* non-empty and the level has a spawnpoint-tagged and a goal-tagged object;
\* otherwise nothing is sent and the stored levels are unchanged, so every
\* level the editor has stored is a valid one
C29_SaveOnlyValidLevels ==
    LET Valid(level) ==
            /\ \E i \in DOMAIN level.objects : "spawnpoint" \in level.objects[i].properties
            /\ \E i \in DOMAIN level.objects : "goal" \in level.objects[i].properties
        r == saveLevel(editor)
    IN  /\ r.sent => editor.levelName # "" /\ Valid(editor.level)
        /\ ~ (editor.levelName # "" /\ Valid(editor.level)) =>
               ~ r.sent /\ r.stored = editor.stored
        /\ \A n \in DOMAIN editor.stored : n # "" /\ Valid(editor.stored[n])

\* a level has been stored, and the level now in the editor is refused although
\* it has a name
C29_Witness ==
    /\ DOMAIN editor.stored # {}
    /\ editor.levelName # ""
    /\ ~ saveLevel(editor).sent

C31_SpawnEmoteOneOrNone ==
    \A r \in {0, 1}, dx \in RandomOffsets :
        LET t == spawnEmote(G, now, r, dx)
            tagged(tag) == {i \in DOMAIN levelObjects : tag \in levelObjects[i].properties}
            k == IF tagged("emotespawn") # {} THEN Min(tagged("emotespawn"))
                 ELSE IF tagged("spawnpoint") # {} THEN Min(tagged("spawnpoint")) ELSE 0
            added == t.world \ world
        IN  IF k = 0 THEN t = G
            ELSE /\ ~ t.threw
                 /\ Cardinality(added) = 1 /\ world \subseteq t.world
                 /\ Len(t.emotes) = Len(emotes) + 1
                 /\ SubSeq(t.emotes, 1, Len(emotes)) = emotes
                 /\ t.emotes[Len(t.emotes)].body \in added
                 /\ \A h \in added :
                        /\ t.bodies[h].kind = "emote"
                        /\ t.bodies[h].pos = Pt(levelObjects[k].x + dx, levelObjects[k].y - SpawnLift)
                 /\ \A h \in world : t.bodies[h] = bodies[h]
                 /\ [t EXCEPT !.emotes = emotes, !.world = world, !.bodies = bodies] = G

\* an emote spawned in level E, whose emotespawn comes after its spawnpoint
C31_Witness ==
    /\ currentLevel.name = "E"
    /\ \E i \in DOMAIN emotes : bodies[emotes[i].body].pos.y = 300 - SpawnLift

\* C32: applyPlayerInputs adds to each player's body the force
\* (F*(right - left), F*(down - up)) with F = 0.003: opposite directions
\* cancel, a diagonal is the unnormalised sum of its components, and nothing is
\* applied to a player who never sent an input; nothing else changes
C32_InputForceSum ==
    \A id \in SocketIds, u \in BOOLEAN, d \in BOOLEAN, l \in BOOLEAN, r \in BOOLEAN :
        LET g == updatePlayerInput(G, id, Input(u, d, l, r))
            t == applyPlayerInputs(g)
            One(b) == IF b THEN 1 ELSE 0
            Want(input) ==
                IF input.set
                THEN Pt(ForceAmount * (One(input.right) - One(input.left)),
                        ForceAmount * (One(input.down) - One(input.up)))
                ELSE Zero
        IN  /\ \A k \in DOMAIN g.players :
                 LET h == g.players[k].body
                     f == Want(g.players[k].input)
                 IN  t.bodies[h].force = Pt(g.bodies[h].force.x + f.x, g.bodies[h].force.y + f.y)
            /\ \A h \in DOMAIN g.bodies :
                 h \notin {g.players[k].body : k \in DOMAIN g.players} => t.bodies[h] = g.bodies[h]
            /\ [t EXCEPT !.bodies = g.bodies] = g

\* a player holding up and left carries the diagonal force (-F, -F) after a tick
C32_Witness ==
    \E k \in DOMAIN players :
        /\ players[k].input = Input(TRUE, FALSE, TRUE, FALSE)
        /\ bodies[players[k].body].force = Pt(0 - ForceAmount, 0 - ForceAmount)

\* C33: a beam force is applied only on behalf of a player whose beam is on,
\* never to a static level object or to that player's own body, and to exactly
\* the marbles, emotes, non-static level objects and other players inside the
\* cone; this holds for updateBeamEffects and for handleBeamInteraction
C33_BeamForceTargets ==
    LET g == [G EXCEPT !.bodies = [h \in DOMAIN @ |-> [@[h] EXCEPT !.beamBy = {}]]]
        Candidate(h, q) ==
            \/ h \in Handles(marbles)
            \/ h \in Handles(emotes)
            \/ \E i \in DOMAIN levelObjects : levelObjects[i].body = h /\ ~ levelObjects[i].isStatic
            \/ \E j \in DOMAIN players : players[j].body = h /\ players[j].id # q
        Pulls(q) ==
            LET k == PlayerAt(G, q)
            IN  IF k = 0 \/ ~ players[k].beamActive THEN {}
                ELSE {h \in DOMAIN bodies :
                         /\ Candidate(h, q)
                         /\ h # players[k].body
                         /\ InBeam(BeamPolygon(players[k].x, players[k].y), bodies[h])}
    IN  /\ LET t == updateBeamEffects(g)
           IN  \A h \in DOMAIN t.bodies :
                   t.bodies[h].beamBy = {q \in SocketIds : h \in Pulls(q)}
        /\ \A id \in SocketIds :
             LET t == handleBeamInteraction(g, id)
             IN  \A h \in DOMAIN t.bodies :
                     t.bodies[h].beamBy = {q \in {id} : h \in Pulls(q)}

\* a player's beam is on, a static level object lies inside its cone, and a body
\* has been pulled on its behalf
C33_Witness ==
    \E k \in DOMAIN players :
        /\ players[k].beamActive
        /\ \E i \in DOMAIN levelObjects :
              /\ levelObjects[i].isStatic
              /\ InBeam(BeamPolygon(players[k].x, players[k].y), bodies[levelObjects[i].body])
        /\ \E h \in DOMAIN bodies : players[k].id \in bodies[h].beamBy

\* C34: checkWinCondition reports a win exactly when some marble is closer than
\* 50 to some goal-tagged level object; the nextLevel it reports is that of the
\* first goal in level-object order with a marble in range; with no goal-tagged
\* object the tick reports no win, awards a player no XP and emits no event
C34_WinRule ==
    LET goals == {i \in DOMAIN levelObjects : "goal" \in levelObjects[i].properties}
        Near(i) ==
            \E j \in DOMAIN marbles :
                LET dx == bodies[marbles[j].body].pos.x - levelObjects[i].x
                    dy == bodies[marbles[j].body].pos.y - levelObjects[i].y
                IN  dx * dx + dy * dy < CaptureRadius * CaptureRadius
        reached == {i \in goals : Near(i)}
        winResult == checkWinCondition(G)
    IN  /\ winResult.win <=> reached # {}
        /\ winResult.win => winResult.nextLevel = levelObjects[Min(reached)].nextLevel
        /\ goals = {} =>
             \A mv \in Moves(G, {"marble"}, PointsGoal) :
                 LET s == EngineUpdate(addPlayer(G, SockId(1)), mv)
                     t == updateGameStateHead(s)
                 IN  /\ ~ checkWinCondition(s).win
                     /\ EmittedNextLevel(t) = ""
                     /\ \A k \in DOMAIN s.players :
                            t.players[k].xp = s.players[k].xp /\ t.players[k].level = s.players[k].level

\* each of the two goals of level G has a marble in range: the win carries the
\* (empty) nextLevel of the first goal
C34_Witness ==
    /\ currentLevel.name = "G"
    /\ Cardinality({p[1] : p \in WinPairs(G)}) = 2
    /\ checkWinCondition(G).nextLevel = ""

\* C35: immediately after a tick that teleported an entity at time now, the
\* cooldown map holds no entry older than 2000 ms; between teleports the map
\* does not change, so every entry is at most 2000 ms older than the newest
\* one: the map holds only teleports of the 2 seconds before the latest
C35_CooldownMapPruned ==
    /\ \A mv \in Moves(G, {"marble", "player"}, PointsTeleport) :
         LET t == PhysicsLoopTick(G, mv, now)
         IN  t.teleportCooldowns # teleportCooldowns =>
               /\ \E k \in DOMAIN t.teleportCooldowns : t.teleportCooldowns[k] = now
               /\ \A k \in DOMAIN t.teleportCooldowns : now - t.teleportCooldowns[k] <= PruneMs
    /\ \A k \in DOMAIN teleportCooldowns, q \in DOMAIN teleportCooldowns :
         teleportCooldowns[q] - teleportCooldowns[k] <= PruneMs

\* a teleport has pruned the entry of an entity that teleported earlier
C35_Witness ==
    /\ DOMAIN teleportCooldowns # {}
    /\ \E h \in DOMAIN bodies :
          /\ bodies[h].tpLast # 0
          /\ bodies[h].owner \notin DOMAIN teleportCooldowns

\* C36: on a login message the server adds the player, then sends loginSuccess
\* to that socket before the initial gameState, which already contains the new
\* player, and every other connected socket receives playerJoined for the player
C36_LoginOrder ==
    \A id \in SocketIds :
        sockets[id] = "open" =>
            LET r == loginHandler(G, sockets, id)
                e == r.emitted
                To(o, event) == {i \in DOMAIN e : e[i].event = event /\ o \in e[i].to}
            IN  /\ r.engine = addPlayer(G, id)
                /\ Cardinality(To(id, "loginSuccess")) = 1
                /\ Cardinality(To(id, "gameState")) = 1
                /\ \A i \in To(id, "loginSuccess"), j \in To(id, "gameState") :
                       /\ i < j
                       /\ e[i].data.id = id
                       /\ e[j].data = getGameState(r.engine)
                       /\ \E k \in DOMAIN e[j].data.players : e[j].data.players[k].id = id
                /\ To(id, "playerJoined") = {}
                /\ \A o \in SocketIds \ {id} :
                       IF sockets[o] = "open"
                       THEN /\ Cardinality(To(o, "playerJoined")) = 1
                            /\ \A i \in To(o, "playerJoined") : e[i].data.id = id
                       ELSE To(o, "playerJoined") = {}

\* a socket has logged in while the other socket is connected
C36_Witness ==
    \E id \in SocketIds, o \in SocketIds :
        /\ o # id
        /\ sockets[o] = "open"
        /\ sockets[id] = "open"
        /\ id \in PlayerIds(G)

\* C37: in every reachable state a player whose beamActive is false has
\* beamTarget = null: switching the beam off clears the target, and neither
\* handleBeamInteraction nor a tick sets one for a player whose beam is off
C37_NoTargetWhenBeamOff ==
    \A k \in DOMAIN players : ~ players[k].beamActive => players[k].beamTarget = NoId

\* a player's beam is off after it has pulled a body: the force it applied is still
\* on that body
C37_Witness ==
    \E k \in DOMAIN players :
        /\ ~ players[k].beamActive
        /\ \E h \in DOMAIN bodies : players[k].id \in bodies[h].beamBy

\* C38: at every tick boundary every connected player has level >= 1 and
\* 0 <= xp < level * 1000 with xp a multiple of 100: the award and the level-up
\* never leave a player at or above the threshold of the current level
C38_XpBelowThreshold ==
    \A k \in DOMAIN players :
        /\ players[k].level >= 1
        /\ players[k].xp >= 0
        /\ players[k].xp < players[k].level * XpPerLevel
        /\ players[k].xp % XpAward = 0

\* a player has been awarded up to the threshold and has levelled up
C38_Witness ==
    \E k \in DOMAIN players : players[k].level > 1 /\ players[k].xp = 0

\* C39: after any sequence of createRectangle, createCircle, createConnection and
\* deleteObject every connection's bodyA and bodyB are ids of objects still in the
\* level, and the objects of the level carry different ids
C39_EditorReferentialIntegrity ==
    LET objects == editor.level.objects
        ids == {objects[i].id : i \in DOMAIN objects}
    IN  /\ \A c \in DOMAIN editor.level.connections :
               /\ editor.level.connections[c].bodyA \in ids
               /\ editor.level.connections[c].bodyB \in ids
        /\ \A i, j \in DOMAIN objects : objects[i].id = objects[j].id => i = j

\* C40: in the GameLogic of server/gameLogic.js every non-player body in the world is
\* the body of exactly one entry of marbles, emotes or levelObjects: loadLevel
\* leaves no marble body of the level before in the world
C40_WorldBodiesOwned ==
    \A h \in world :
        bodies[h].kind # "player" =>
            Cardinality({<<"marbles", k>> : k \in {q \in DOMAIN marbles : marbles[q].body = h}}
                        \cup {<<"emotes", k>> : k \in {q \in DOMAIN emotes : emotes[q].body = h}}
                        \cup {<<"levelObjects", k>> :
                                  k \in {q \in DOMAIN levelObjects : levelObjects[q].body = h}})
                = 1

====
